---- MODULE Spec2Model ----
(***************************************************************************)
(* A model of memory-mcp: the file-backed, versioned memory registry       *)
(* (backend/core/memory_registry.py, backend/core/validators.py) run by    *)
(* one asyncio event loop, and the backend singleton lock protocol         *)
(* (backend/lock.py, backend/server.py, frontend/client.py).               *)
(*                                                                         *)
(* Text is a sequence of one-character strings.  A coroutine runs without  *)
(* interruption from one suspension point to the next, so each action of   *)
(* the registry is the code between two suspension points (the oracle      *)
(* call, or the wait for a held asyncio.Lock).                             *)
(***************************************************************************)
EXTENDS Integers, Sequences, FiniteSets, TLC

VARIABLES
    memories,   \* MemoryRegistry._memories: the dict, as its (key, object) pairs in insertion order
    heap,       \* the Memory objects, by identity: _keywords, _loaded, _content, _version
    locks,      \* Memory.lock of each object: its holder (0: unlocked) and the FIFO of waiters
    files,      \* the .memories directory: file stem -> text
    tasks,      \* the coroutines of the event loop: operation, arguments, position, locals, result
    nops,       \* the number of operations started
    inodes,     \* the lock file's inodes: payload text and flock holder
    path,       \* the inode the lock-file path names (0: no such file)
    backends,   \* the backend processes: position in BackendServer.run, open descriptor
    clients,    \* the client processes: position in _discover_backend, locals
    nsteps,     \* the number of runs of _discover_backend started
    server      \* BackendServer: active_tasks, the idle time, the monitor, the handlers in flight

vars == <<memories, heap, locks, files, tasks, nops, inodes, path, backends, clients, nsteps, server>>

storeVars == <<memories, heap, locks, files, tasks, nops>>
lockVars == <<inodes, path, backends, clients, nsteps>>

(***************************************************************************)
(* Bounds of the model.                                                    *)
(***************************************************************************)
NTasks == 2         \* coroutines that can be in flight together
MaxOps == 2         \* operations started in one run, on top of the files of the start
MaxKeys == 3        \* entries of the dict that list is run on
\* backend processes launched, client processes, and runs of _discover_backend
NBackends == 3
NClients == 2
MaxDiscovers == 2
\* the files of a directory that a registry is constructed on
MaxFiles == 2
\* the clients that call start
NStarters == 1
\* the parameters a BackendServer is constructed with, in ticks of the clock, and
\* the requests one backend receives
shutdown_idle == 2
shutdown_check_interval == 1
MaxRequests == 2

\* the polls of _start_backend: for _ in range(10)
MaxPolls == 10

\* the word limit of validate_content_size (config.py sets MAX_FILE_SIZE = 1000):
\* a bound here, small so that the short texts of the model reach both sides of it
MAX_FILE_SIZE == 2

(***************************************************************************)
(* Characters.  "x" "y" are Latin letters, "z" stands for one CJK           *)
(* character (U+4E00..U+9FFF); "a" "b" lowercase letters of keywords, "A"  *)
(* an uppercase letter.                                                    *)
(***************************************************************************)
ContentChars == {"x", "z"}
CJK == {"z"}
Lower == {"a", "b", "x", "y"}
Upper == {"A"}
Digit == {"1"}

\* the code point order of the characters used ("-" < digits < upper < lower)
CharCode(c) ==
    CASE c = "-" -> 45
      [] c = "1" -> 49
      [] c = "A" -> 65
      [] c = "a" -> 97
      [] c = "b" -> 98
      [] c = "x" -> 120
      [] c = "y" -> 121
      [] c = "|" -> 124
      [] OTHER -> 200

(***************************************************************************)
(* str operations                                                          *)
(***************************************************************************)
\* s < t in Python's str order
RECURSIVE StrLess(_, _)
StrLess(s, t) ==
    IF t = <<>> THEN FALSE
    ELSE IF s = <<>> THEN TRUE
    ELSE IF Head(s) # Head(t) THEN CharCode(Head(s)) < CharCode(Head(t))
    ELSE StrLess(Tail(s), Tail(t))

\* sorted(S) for a set S of strings
RECURSIVE Sorted(_)
Sorted(S) ==
    IF S = {} THEN <<>>
    ELSE LET m == CHOOSE u \in S : \A w \in S \ {u} : StrLess(u, w)
         IN <<m>> \o Sorted(S \ {m})

\* sep.join(parts)
RECURSIVE Join(_, _)
Join(parts, sep) ==
    IF parts = <<>> THEN <<>>
    ELSE IF Len(parts) = 1 THEN parts[1]
    ELSE parts[1] \o sep \o Join(Tail(parts), sep)

StartsWith(s, p) == Len(p) <= Len(s) /\ SubSeq(s, 1, Len(p)) = p

\* s.count(sub): non-overlapping occurrences, scanning from the left;
\* the empty string occurs len(s) + 1 times
RECURSIVE StrCount(_, _)
\* a count that stops at the first occurrence
StrCountFirst(s, sub) == IF \E i \in 1..Len(s) : StartsWith(SubSeq(s, i, Len(s)), sub) THEN 1 ELSE 0
StrCount(s, sub) ==
    IF sub = <<>> THEN Len(s) + 1
    ELSE IF Len(s) < Len(sub) THEN 0
    ELSE IF StartsWith(s, sub)
         THEN 1 + StrCount(SubSeq(s, Len(sub) + 1, Len(s)), sub)
         ELSE StrCount(Tail(s), sub)

\* s.replace(old, new, 1): the leftmost occurrence replaced, s itself when there is none
RECURSIVE ReplaceFirst(_, _, _)
ReplaceFirst(s, old, new) ==
    IF StartsWith(s, old) THEN new \o SubSeq(s, Len(old) + 1, Len(s))
    ELSE IF s = <<>> THEN <<>>
    ELSE <<Head(s)>> \o ReplaceFirst(Tail(s), old, new)

\* s.split(sep) for a one-character separator
RECURSIVE Split(_, _)
Split(s, sep) ==
    IF \A i \in 1..Len(s) : s[i] # sep THEN <<s>>
    ELSE LET i == CHOOSE j \in 1..Len(s) : s[j] = sep /\ \A k \in 1..(j - 1) : s[k] # sep
         IN <<SubSeq(s, 1, i - 1)>> \o Split(SubSeq(s, i + 1, Len(s)), sep)

Range(q) == {q[i] : i \in 1..Len(q)}

(***************************************************************************)
(* validators.py                                                           *)
(***************************************************************************)
isalnum(kw) == kw # <<>> /\ \A i \in 1..Len(kw) : kw[i] \in Lower \cup Upper \cup Digit
islower(kw) == (\E i \in 1..Len(kw) : kw[i] \in Lower) /\ (\A i \in 1..Len(kw) : kw[i] \notin Upper)
anyalpha(kw) == \E i \in 1..Len(kw) : kw[i] \in Lower \cup Upper

\* validate_keywords: Ok(frozenset(keywords)) or Err
validate_keywords(keywords) ==
    IF keywords = {} THEN [ok |-> FALSE, key |-> {}]
    ELSE IF \E kw \in keywords : kw = <<>> \/ ~(isalnum(kw) /\ islower(kw) /\ anyalpha(kw))
         THEN [ok |-> FALSE, key |-> {}]
         ELSE [ok |-> TRUE, key |-> keywords]

\* the number of maximal runs of letters and digits once every CJK character is a blank
RECURSIVE WordRuns(_, _)
WordRuns(s, inWord) ==
    IF s = <<>> THEN 0
    ELSE IF Head(s) \in CJK \/ Head(s) = " " THEN WordRuns(Tail(s), FALSE)
    ELSE (IF inWord THEN 0 ELSE 1) + WordRuns(Tail(s), TRUE)

\* count_words_mixed: CJK characters one by one, the rest by words
count_words_mixed(content) ==
    Cardinality({i \in 1..Len(content) : content[i] \in CJK}) + WordRuns(content, FALSE)

\* validate_content_size: Ok iff the count does not exceed MAX_FILE_SIZE
validate_content_size(content) == count_words_mixed(content) <= MAX_FILE_SIZE

\* validate_semantics: what the awaited small_agent call can yield: the accept
\* tool, the reject tool, None (no final tool call), or an exception of the API client
Verdicts == {"accept", "reject", "none", "raise"}
\* the ends of the await that raise at it: an exception of the API call, and
\* the CancelledError of a coroutine that is cancelled while it waits
Raised == {"raise", "cancelled"}
exception(verdict) == IF verdict = "cancelled" THEN "CancelledError" ELSE "oracle"

\* an oracle check that lets through everything but an explicit reject
semantics_not_rejected(verdict) == verdict # "reject"
\* validate_semantics returns Ok(None) only for the accept tool
semantics_ok(verdict) == verdict = "accept"

(***************************************************************************)
(* Memory                                                                  *)
(***************************************************************************)
None == <<"None">>

\* "-".join(sorted(keywords))
keywords_str(keywords) == Join(Sorted(keywords), <<"-">>)

\* Memory._get_file_path: the stem of the file, "-".join(sorted(self._keywords))
get_file_path(keywords) == keywords_str(keywords)

\* Memory._generate_version: the SHA-256 prefix of "{keywords_str}|{content}".
\* The digest is taken to be collision free and is represented by the text digested.
generate_version(keywords, content) == keywords_str(keywords) \o <<"|">> \o content

\* hashlib.sha256(combined.encode("utf-8")).hexdigest() for the combined texts of
\* the keywords a, b and the contents "", "x", "y", "xy": each text with the first
\* 16 of the 64 digits of its digest
SHA256 ==
    {
      << <<"a", "|">>, <<"c", "6", "8", "3", "f", "c", "4", "3", "6", "c", "a", "8", "c", "e", "e", "4">> >>,
      << <<"a", "|", "x">>, <<"4", "a", "0", "8", "d", "7", "a", "0", "b", "5", "8", "3", "c", "6", "7", "1">> >>,
      << <<"a", "|", "y">>, <<"e", "0", "0", "3", "e", "b", "7", "c", "0", "5", "9", "9", "b", "4", "0", "7">> >>,
      << <<"a", "|", "x", "y">>, <<"c", "9", "c", "1", "5", "c", "e", "1", "0", "3", "8", "a", "d", "3", "6", "8">> >>,
      << <<"b", "|">>, <<"f", "e", "f", "5", "5", "5", "a", "4", "0", "7", "8", "7", "f", "8", "d", "2">> >>,
      << <<"b", "|", "x">>, <<"5", "2", "5", "4", "5", "9", "7", "1", "3", "f", "5", "0", "8", "0", "2", "a">> >>,
      << <<"b", "|", "y">>, <<"2", "2", "1", "2", "6", "2", "8", "d", "f", "b", "b", "3", "9", "9", "0", "b">> >>,
      << <<"b", "|", "x", "y">>, <<"6", "c", "9", "d", "5", "f", "1", "a", "7", "f", "7", "8", "1", "e", "e", "4">> >>,
      << <<"a", "-", "b", "|">>, <<"c", "d", "9", "9", "e", "a", "e", "3", "7", "6", "6", "2", "3", "f", "8", "2">> >>,
      << <<"a", "-", "b", "|", "x">>, <<"c", "4", "5", "4", "b", "d", "f", "4", "e", "7", "3", "1", "8", "2", "f", "8">> >>,
      << <<"a", "-", "b", "|", "y">>, <<"5", "4", "1", "0", "8", "d", "e", "9", "6", "2", "4", "5", "2", "0", "3", "d">> >>,
      << <<"a", "-", "b", "|", "x", "y">>, <<"4", "5", "9", "9", "c", "6", "f", "d", "d", "1", "c", "3", "5", "2", "7", "9">> >>
    }
hexdigest(combined) == (CHOOSE e \in SHA256 : e[1] = combined)[2]
\* a version of one digit
first_digit(keywords, content) == SubSeq(hexdigest(generate_version(keywords, content)), 1, 1)
\* Memory._generate_version with the digest computed: hash_obj.hexdigest()[:8]
version_digest(keywords, content) == SubSeq(hexdigest(generate_version(keywords, content)), 1, 8)

\* the name taken as one keyword
whole_name(name) == {name}
\* extract_keywords_from_filename
extract_keywords_from_filename(name) == Range(Split(name, "-"))

\* file_manager.write_file / Path.unlink(missing_ok=True) on a directory d
\* a write that never reaches the directory
lost_write(d, stem, content) == d
write_file(d, stem, content) ==
    [s \in DOMAIN d \cup {stem} |-> IF s = stem THEN content ELSE d[s]]
\* an unlink that leaves the file in place
kept_file(d, stem) == d
unlink(d, stem) == [s \in DOMAIN d \ {stem} |-> d[s]]

NoMemory == [alloc |-> FALSE, keywords |-> {}, loaded |-> FALSE, content |-> None, version |-> None]
\* Memory.__init__
NewMemory(key) == [alloc |-> TRUE, keywords |-> key, loaded |-> FALSE, content |-> None, version |-> None]
\* the fields after Memory.create / set_content stored the content
StoredMemory(key, content) ==
    [alloc |-> TRUE, keywords |-> key, loaded |-> TRUE, content |-> content,
     version |-> generate_version(key, content)]

\* Memory._load_from_file succeeds iff the file exists (read_text raises otherwise)
CanLoad(h, d, o) == h[o].loaded \/ get_file_path(h[o].keywords) \in DOMAIN d
\* the object after the lazy accessors content / version ran
Loaded(h, d, o) ==
    IF h[o].loaded THEN h[o]
    ELSE StoredMemory(h[o].keywords, d[get_file_path(h[o].keywords)])

\* a failed validation that had assigned the content first
assigned_content(m, new_content) == [m EXCEPT !.content = new_content, !.loaded = TRUE]
\* Memory.set_content and Memory.create when a validation fails: they return the
\* Err before any field is assigned
rejected_content(m, new_content) == m
\* Memory.set_content and Memory.create once validation passed: _content,
\* _version and _loaded are assigned
accepted_content(m, new_content) == StoredMemory(m.keywords, new_content)

\* a version check that accepts any version
any_version(m, version) == TRUE
\* Memory.check_version
check_version(m, version) == m.version = version

\* Memory.snapshot
snapshot(m) == [keywords |-> m.keywords, content |-> m.content, version |-> m.version]
NoSnap == [keywords |-> {}, content |-> None, version |-> None]

Ok(snap) == [kind |-> "ok", err |-> "", count |-> 0, snap |-> snap]
Err(e) == [kind |-> "err", err |-> e, count |-> 0, snap |-> NoSnap]
ErrCount(e, n) == [kind |-> "err", err |-> e, count |-> n, snap |-> NoSnap]
Raise(e) == [kind |-> "raise", err |-> e, count |-> 0, snap |-> NoSnap]
NoResult == [kind |-> "none", err |-> "", count |-> 0, snap |-> NoSnap]

(***************************************************************************)
(* The event loop's coroutines and the arguments they are called with      *)
(***************************************************************************)
Tasks == 1..NTasks
ObjIds == 1..(2 + MaxOps)
\* MemoryRegistry._registry_lock, kept with the locks of the objects under the id
\* no object has
registry_lock == 0
LockIds == ObjIds \cup {registry_lock}

\* a text one word over the limit: MAX_FILE_SIZE + 1 CJK characters
OversizeText == [i \in 1..(MAX_FILE_SIZE + 1) |-> "z"]
\* the texts create is called with
CreateTexts == { <<"x">>, <<"x", "z">>, OversizeText }
\* the fragments update is called with: old_content and new_content
OldFragments == { <<"x">>, <<"z">> }
NewFragments == { <<"x">>, [i \in 1..MAX_FILE_SIZE |-> "z"] }
\* keyword lists: two well-formed ones, one with an uppercase token, the empty list
KeywordArgs == { {<<"a">>}, {<<"a">>, <<"b">>}, {<<"A">>}, {} }
\* the keyword lists an entry is looked up with
LookupArgs == { {<<"a">>}, {<<"a">>, <<"b">>} }

IdleTask ==
    [op |-> "none", pc |-> "idle", keywords |-> {}, new_keywords |-> {}, old |-> None,
     new |-> None, version |-> None, content |-> None, obj |-> 0, newobj |-> 0,
     pending |-> None, checks |-> <<>>, verdict |-> "", fresh |-> FALSE, result |-> NoResult,
     query |-> <<>>, scored |-> <<>>, listing |-> <<>>]

\* the versions a caller can hold for a key: that of its file, that of its loaded
\* entry, those an earlier call on the key carried or returned, and one that matches nothing
VersionArgs(keywords) ==
    {generate_version(keywords, files[f]) : f \in {get_file_path(keywords)} \cap DOMAIN files}
    \cup {heap[o].version : o \in {i \in ObjIds : heap[i].loaded /\ heap[i].keywords = keywords}}
    \cup {tasks[t].version : t \in {u \in Tasks : tasks[u].op \in {"update", "reassign", "delete"}
                                                  /\ tasks[u].keywords = keywords}}
    \cup {tasks[t].result.snap.version : t \in {u \in Tasks : tasks[u].result.snap.keywords = keywords}}
    \cup {<<"?">>}

(***************************************************************************)
(* The registry's dict                                                     *)
(***************************************************************************)
Keys(mems) == {mems[i].key : i \in 1..Len(mems)}
ObjOf(mems, key) == (CHOOSE i \in 1..Len(mems) : mems[i].key = key) 
\* MemoryRegistry._find_memory: the object under frozenset(keywords), 0 for the NotFound hint
find_memory(mems, keywords) ==
    IF keywords \in Keys(mems) THEN mems[ObjOf(mems, keywords)].obj ELSE 0
\* del self._memories[key]
DictDel(mems, key) == SelectSeq(mems, LAMBDA e : e.key # key)
\* self._memories[key] = memory, for a key not in the dict
DictSet(mems, key, o) == Append(mems, [key |-> key, obj |-> o])

\* objects no dict entry and no running coroutine refers to are reclaimed
Referenced(mems, tks, o) ==
    \/ \E i \in 1..Len(mems) : mems[i].obj = o
    \/ \E t \in Tasks : tks[t].pc \in {"lock", "oracle"} /\ (tks[t].obj = o \/ tks[t].newobj = o)
Collect(h, mems, tks) == [o \in ObjIds |-> IF Referenced(mems, tks, o) THEN h[o] ELSE NoMemory]
FreshObj(h) == CHOOSE o \in ObjIds : ~h[o].alloc /\ \A p \in ObjIds : p < o => h[p].alloc

Unlocked == [holder |-> 0, waiters |-> <<>>]
\* an acquire that never waits
lock_ignored(lk, o) == TRUE
\* asyncio.Lock.acquire returns at once iff the lock is not held and nobody waits
LockFree(lk, o) == lk[o].holder = 0 /\ lk[o].waiters = <<>>
\* a lock that stays with its holder
kept_locked(lk, o) == lk
\* asyncio.Lock.release: the lock is free again; the first waiter is woken and
\* takes it when it runs
Release(lk, o) == [lk EXCEPT ![o].holder = 0]
\* asyncio.Lock.acquire of a free lock by coroutine t
Acquired(lk, o, t) == [lk EXCEPT ![o].holder = t]

\* what MemoryRegistry.read returns for keywords in a state of the registry
read(mems, h, d, keywords) ==
    LET o == find_memory(mems, keywords) IN
    IF o = 0 THEN Err("not_found")
    ELSE IF ~CanLoad(h, d, o) THEN Raise("FileNotFoundError")
    ELSE Ok(snapshot(Loaded(h, d, o)))

\* whether version is the one a read of keywords returns now
IsCurrent(keywords, version) ==
    LET r == read(memories, heap, files, keywords) IN r.kind = "ok" /\ r.snap.version = version

\* the coroutine returns res (or, for Raise, ends with the exception)
Finish(tk, res) ==
    [tk EXCEPT !.pc = "done", !.result = res, !.obj = 0, !.newobj = 0, !.pending = None]

Check(what, keywords, content) == [check |-> what, keywords |-> keywords, content |-> content]

\* the next state of the registry: its dict, objects, locks, directory and coroutine t
Commit(mems, h, lk, d, t, tk) ==
    LET tks == [tasks EXCEPT ![t] = tk] IN
    /\ memories' = mems
    /\ heap' = Collect(h, mems, tks)
    /\ locks' = [o \in LockIds |-> IF o = registry_lock \/ Referenced(mems, tks, o) THEN lk[o] ELSE Unlocked]
    /\ files' = d
    /\ tasks' = tks
    /\ UNCHANGED <<lockVars, server>>

CanStart(t) ==
    /\ tasks[t].pc \in {"idle", "done"}
    /\ \A u \in Tasks : u < t => tasks[u].pc \in {"lock", "oracle"}
    /\ nops < MaxOps

(***************************************************************************)
(* MemoryRegistry.create                                                   *)
(***************************************************************************)
\* create up to the await in Memory.create: validate_keywords, validate_content_size
CreateStart(t, keywords, content) ==
    /\ CanStart(t)
    /\ nops' = nops + 1
    /\ LET call == [IdleTask EXCEPT !.op = "create", !.keywords = keywords, !.content = content]
           vk == validate_keywords(keywords)
       IN IF ~vk.ok
          THEN Commit(memories, heap, locks, files, t, Finish(call, Err("invalid_keywords")))
          ELSE IF ~validate_content_size(content)
          THEN Commit(memories, heap, locks, files, t, Finish(call, Err("oversize")))
          ELSE LET o == FreshObj(heap) IN
               Commit(memories, [heap EXCEPT ![o] = NewMemory(vk.key)], locks, files, t,
                      [call EXCEPT !.pc = "oracle", !.newobj = o, !.pending = content,
                                   !.checks = <<Check("keywords", vk.key, None),
                                                Check("size", {}, content)>>])

\* create from the return of validate_semantics: Memory.create stores and saves
\* the content, then MemoryRegistry.create looks the key up under _registry_lock,
\* which it takes without waiting when it is free and leaves with its return
CreateOracle(t, verdict) ==
    /\ tasks[t].op = "create" /\ tasks[t].pc = "oracle"
    /\ UNCHANGED nops
    /\ LET tk == [tasks[t] EXCEPT !.verdict = verdict]
           o == tk.newobj
           key == heap[o].keywords
       IN IF verdict \in Raised
          THEN Commit(memories, heap, locks, files, t, Finish(tk, Raise(exception(verdict))))
          ELSE IF ~semantics_ok(verdict)
          THEN Commit(memories, heap, locks, files, t, Finish(tk, Err("semantics")))
          ELSE LET h1 == [heap EXCEPT ![o] = accepted_content(@, tk.pending)]
                   d1 == write_file(files, get_file_path(key), tk.pending)
                   tk1 == [tk EXCEPT !.checks = Append(@, Check("oracle", key, tk.pending))]
                   rl == Release(Acquired(locks, registry_lock, t), registry_lock)
               IN /\ LockFree(locks, registry_lock)
                  /\ IF key \in Keys(memories)
                     THEN Commit(memories, h1, rl, d1, t, Finish(tk1, Err("conflict")))
                     ELSE Commit(DictSet(memories, key, o), h1, rl, d1, t,
                                 Finish(tk1, Ok(snapshot(h1[o]))))

(***************************************************************************)
(* MemoryRegistry.update                                                   *)
(***************************************************************************)
\* update inside "async with memory.lock" up to the await in set_content;
\* lk is the locks with tk.obj held by t
UpdateBody(t, tk, lk) ==
    LET o == tk.obj IN
    IF ~CanLoad(heap, files, o)
    THEN Commit(memories, heap, Release(lk, o), files, t, Finish(tk, Raise("FileNotFoundError")))
    ELSE LET m == Loaded(heap, files, o)
             h1 == [heap EXCEPT ![o] = m]
             count == StrCount(m.content, tk.old)
             updated_content == ReplaceFirst(m.content, tk.old, tk.new)
         IN IF ~check_version(m, tk.version)
            THEN Commit(memories, h1, Release(lk, o), files, t, Finish(tk, Err("version_mismatch")))
            ELSE IF count = 0
            THEN Commit(memories, h1, Release(lk, o), files, t, Finish(tk, Err("fragment_not_found")))
            ELSE IF count > 1
            THEN Commit(memories, h1, Release(lk, o), files, t,
                        Finish(tk, ErrCount("fragment_ambiguous", count)))
            ELSE IF ~validate_content_size(updated_content)
            THEN Commit(memories, [h1 EXCEPT ![o] = rejected_content(@, updated_content)],
                        Release(lk, o), files, t, Finish(tk, Err("oversize")))
            ELSE Commit(memories, h1, lk, files, t,
                        [tk EXCEPT !.pc = "oracle", !.pending = updated_content,
                                   !.checks = <<Check("size", {}, updated_content)>>])

\* update from its call: _find_memory, then the lock, taken at once when it is free
UpdateStart(t, keywords, old_content, new_content, version) ==
    /\ CanStart(t)
    /\ nops' = nops + 1
    /\ LET call == [IdleTask EXCEPT !.op = "update", !.keywords = keywords, !.old = old_content,
                                    !.new = new_content, !.version = version,
                                    !.fresh = IsCurrent(keywords, version)]
           o == find_memory(memories, keywords)
       IN IF o = 0
          THEN Commit(memories, heap, locks, files, t, Finish(call, Err("not_found")))
          ELSE IF LockFree(locks, o)
          THEN UpdateBody(t, [call EXCEPT !.obj = o], [locks EXCEPT ![o].holder = t])
          ELSE Commit(memories, heap, [locks EXCEPT ![o].waiters = Append(@, t)], files, t,
                      [call EXCEPT !.pc = "lock", !.obj = o])

\* update woken as the first waiter of the released lock
UpdateLocked(t) ==
    /\ tasks[t].op = "update" /\ tasks[t].pc = "lock"
    /\ locks[tasks[t].obj].holder = 0 /\ Head(locks[tasks[t].obj].waiters) = t
    /\ UNCHANGED nops
    /\ UpdateBody(t, tasks[t],
                  [locks EXCEPT ![tasks[t].obj] = [holder |-> t, waiters |-> Tail(@.waiters)]])

\* update from the return of validate_semantics in set_content
UpdateOracle(t, verdict) ==
    /\ tasks[t].op = "update" /\ tasks[t].pc = "oracle"
    /\ UNCHANGED nops
    /\ LET tk == [tasks[t] EXCEPT !.verdict = verdict]
           o == tk.obj
           key == heap[o].keywords
           lk == Release(locks, o)
       IN IF verdict \in Raised
          THEN Commit(memories, heap, lk, files, t, Finish(tk, Raise(exception(verdict))))
          ELSE IF ~semantics_ok(verdict)
          THEN Commit(memories, [heap EXCEPT ![o] = rejected_content(@, tk.pending)], lk, files, t,
                      Finish(tk, Err("semantics")))
          ELSE LET h1 == [heap EXCEPT ![o] = accepted_content(@, tk.pending)]
                   d1 == write_file(files, get_file_path(key), tk.pending)
                   tk1 == [tk EXCEPT !.checks = Append(@, Check("oracle", key, tk.pending))]
               IN Commit(memories, h1, lk, d1, t, Finish(tk1, Ok(snapshot(h1[o]))))

(***************************************************************************)
(* MemoryRegistry.reassign                                                 *)
(***************************************************************************)
\* reassign inside "async with old_memory.lock" up to the await in
\* Memory.create(new_keywords, old_memory.content)
ReassignBody(t, tk, lk) ==
    LET o == tk.obj IN
    IF ~CanLoad(heap, files, o)
    THEN Commit(memories, heap, Release(lk, o), files, t, Finish(tk, Raise("FileNotFoundError")))
    ELSE LET m == Loaded(heap, files, o)
             h1 == [heap EXCEPT ![o] = m]
             vk == validate_keywords(tk.new_keywords)
         IN IF ~check_version(m, tk.version)
            THEN Commit(memories, h1, Release(lk, o), files, t, Finish(tk, Err("version_mismatch")))
            ELSE IF ~vk.ok
            THEN Commit(memories, h1, Release(lk, o), files, t, Finish(tk, Err("invalid_keywords")))
            ELSE IF ~validate_content_size(m.content)
            THEN Commit(memories, h1, Release(lk, o), files, t, Finish(tk, Err("oversize")))
            ELSE LET n == FreshObj(h1) IN
                 Commit(memories, [h1 EXCEPT ![n] = NewMemory(vk.key)], lk, files, t,
                        [tk EXCEPT !.pc = "oracle", !.newobj = n, !.pending = m.content,
                                   !.checks = <<Check("keywords", vk.key, None),
                                                Check("size", {}, m.content)>>])

\* reassign from its call
ReassignStart(t, keywords, new_keywords, version) ==
    /\ CanStart(t)
    /\ nops' = nops + 1
    /\ LET call == [IdleTask EXCEPT !.op = "reassign", !.keywords = keywords,
                                    !.new_keywords = new_keywords, !.version = version,
                                    !.fresh = IsCurrent(keywords, version)]
           o == find_memory(memories, keywords)
       IN IF o = 0
          THEN Commit(memories, heap, locks, files, t, Finish(call, Err("not_found")))
          ELSE IF LockFree(locks, o)
          THEN ReassignBody(t, [call EXCEPT !.obj = o], [locks EXCEPT ![o].holder = t])
          ELSE Commit(memories, heap, [locks EXCEPT ![o].waiters = Append(@, t)], files, t,
                      [call EXCEPT !.pc = "lock", !.obj = o])

\* reassign woken as the first waiter of the released lock
ReassignLocked(t) ==
    /\ tasks[t].op = "reassign" /\ tasks[t].pc = "lock"
    /\ locks[tasks[t].obj].holder = 0 /\ Head(locks[tasks[t].obj].waiters) = t
    /\ UNCHANGED nops
    /\ ReassignBody(t, tasks[t],
                    [locks EXCEPT ![tasks[t].obj] = [holder |-> t, waiters |-> Tail(@.waiters)]])

\* reassign from the return of validate_semantics in Memory.create: the new
\* object is stored and saved, then the dict is changed under _registry_lock
\* (del of a key no longer there raises KeyError), then the old file is removed
ReassignOracle(t, verdict) ==
    /\ tasks[t].op = "reassign" /\ tasks[t].pc = "oracle"
    /\ UNCHANGED nops
    /\ LET tk == [tasks[t] EXCEPT !.verdict = verdict]
           o == tk.obj
           n == tk.newobj
           old_key == tk.keywords
           key == heap[n].keywords
           lk == Release(locks, o)
       IN IF verdict \in Raised
          THEN Commit(memories, heap, lk, files, t, Finish(tk, Raise(exception(verdict))))
          ELSE IF ~semantics_ok(verdict)
          THEN Commit(memories, heap, lk, files, t, Finish(tk, Err("semantics")))
          ELSE LET h1 == [heap EXCEPT ![n] = accepted_content(@, tk.pending)]
                   d1 == write_file(files, get_file_path(key), tk.pending)
                   tk1 == [tk EXCEPT !.checks = Append(@, Check("oracle", key, tk.pending))]
                   rl == Release(Release(Acquired(locks, registry_lock, t), registry_lock), o)
               IN /\ LockFree(locks, registry_lock)
                  /\ IF key \in Keys(memories)
                     THEN Commit(memories, h1, rl, d1, t, Finish(tk1, Err("conflict")))
                     ELSE IF old_key \notin Keys(memories)
                     THEN Commit(memories, h1, rl, d1, t, Finish(tk1, Raise("KeyError")))
                     ELSE Commit(DictSet(DictDel(memories, old_key), key, n), h1, rl,
                                 unlink(d1, get_file_path(heap[o].keywords)), t,
                                 Finish(tk1, Ok(snapshot(h1[n]))))

(***************************************************************************)
(* MemoryRegistry.delete and read: no await, no lock                       *)
(***************************************************************************)
Delete(t, keywords, version) ==
    /\ CanStart(t)
    /\ nops' = nops + 1
    /\ LET call == [IdleTask EXCEPT !.op = "delete", !.keywords = keywords, !.version = version,
                                    !.fresh = IsCurrent(keywords, version)]
           o == find_memory(memories, keywords)
       IN IF o = 0
          THEN Commit(memories, heap, locks, files, t, Finish(call, Err("not_found")))
          ELSE IF ~CanLoad(heap, files, o)
          THEN Commit(memories, heap, locks, files, t, Finish(call, Raise("FileNotFoundError")))
          ELSE LET m == Loaded(heap, files, o)
                   h1 == [heap EXCEPT ![o] = m]
               IN IF ~check_version(m, version)
                  THEN Commit(memories, h1, locks, files, t, Finish(call, Err("version_mismatch")))
                  ELSE Commit(DictDel(memories, keywords), h1, locks,
                              unlink(files, get_file_path(m.keywords)), t,
                              Finish(call, Ok(NoSnap)))

Read(t, keywords) ==
    /\ CanStart(t)
    /\ nops' = nops + 1
    /\ LET call == [IdleTask EXCEPT !.op = "read", !.keywords = keywords]
           o == find_memory(memories, keywords)
       IN IF o = 0
          THEN Commit(memories, heap, locks, files, t, Finish(call, Err("not_found")))
          ELSE IF ~CanLoad(heap, files, o)
          THEN Commit(memories, heap, locks, files, t, Finish(call, Raise("FileNotFoundError")))
          ELSE LET m == Loaded(heap, files, o)
               IN Commit(memories, [heap EXCEPT ![o] = m], locks, files, t,
                         Finish(call, Ok(snapshot(m))))

(***************************************************************************)
(* matcher.score_match and MemoryRegistry.list                             *)
(***************************************************************************)
\* config.py: FUZZY_MATCH_THRESHOLD = 0.8, in hundredths as fuzz.ratio counts
FUZZY_MATCH_THRESHOLD == 80

\* str.lower
lower(kw) == [i \in 1..Len(kw) |-> IF kw[i] = "A" THEN "a" ELSE kw[i]]

\* the length of a longest common subsequence
RECURSIVE LCS(_, _)
LCS(s, t) ==
    IF s = <<>> \/ t = <<>> THEN 0
    ELSE IF Head(s) = Head(t) THEN 1 + LCS(Tail(s), Tail(t))
    ELSE LET l == LCS(Tail(s), t)
             r == LCS(s, Tail(t))
         IN IF l >= r THEN l ELSE r

\* round(n / d) of Python: a half goes to the even neighbour
RoundDiv(n, d) ==
    LET q == n \div d
        r == n % d
    IN IF 2 * r < d THEN q
       ELSE IF 2 * r > d THEN q + 1
       ELSE IF q % 2 = 0 THEN q ELSE q + 1

\* fuzz.ratio: the normalized indel similarity 2 * LCS / (len1 + len2), in
\* hundredths, rounded to an integer
fuzz_ratio(s, t) ==
    IF Len(s) + Len(t) = 0 THEN 100 ELSE RoundDiv(200 * LCS(s, t), Len(s) + Len(t))

\* matcher.fuzzy_match, in hundredths
fuzzy_match(keyword1, keyword2) == fuzz_ratio(lower(keyword1), lower(keyword2))

\* matcher.score_match: match_count grows by one for every pair of a query
\* keyword and a file keyword that are equal or similar enough
RECURSIVE score_match(_, _)
score_match(query_keywords, file_keywords) ==
    IF query_keywords = <<>> THEN 0
    ELSE Cardinality({file_kw \in file_keywords :
                         \/ Head(query_keywords) = file_kw
                         \/ fuzzy_match(Head(query_keywords), file_kw) >= FUZZY_MATCH_THRESHOLD})
         + score_match(Tail(query_keywords), file_keywords)

\* list: the (file_keywords, score) pairs of the loop over the dict, score > 0
RECURSIVE scored_keywords(_, _)
scored_keywords(mems, query_keywords) ==
    IF mems = <<>> THEN <<>>
    ELSE LET score == score_match(query_keywords, Head(mems).key)
             rest == scored_keywords(Tail(mems), query_keywords)
         IN IF score > 0 THEN <<[key |-> Head(mems).key, score |-> score]>> \o rest ELSE rest

\* a sort by rising score
RECURSIVE sort_ascending(_)
sort_ascending(scored) ==
    IF scored = <<>> THEN <<>>
    ELSE LET x == Head(scored) IN
         sort_ascending(SelectSeq(Tail(scored), LAMBDA e : e.score < x.score))
         \o <<x>>
         \o sort_ascending(SelectSeq(Tail(scored), LAMBDA e : e.score >= x.score))

\* list.sort(key=score, reverse=True): by falling score, equal scores stay in
\* the order they had
RECURSIVE sort_reverse(_)
sort_reverse(scored) ==
    IF scored = <<>> THEN <<>>
    ELSE LET x == Head(scored) IN
         sort_reverse(SelectSeq(Tail(scored), LAMBDA e : e.score > x.score))
         \o <<x>>
         \o sort_reverse(SelectSeq(Tail(scored), LAMBDA e : e.score <= x.score))

\* the lists of keywords list is called with
ListQueries == { <<>>, << <<"a">> >>, << <<"a", "b">> >>, << <<"A">> >>,
                 << <<"a">>, <<"y">> >> }
\* the keys of the dicts list is run on
ListKeys == { {<<"a">>, <<"b">>}, {<<"a">>, <<"x">>}, {<<"y">>},
              {<<"a", "b">>, <<"a", "b", "x">>}, {<<"a", "b", "x">>} }

\* MemoryRegistry.list without keywords: no await, no lock
ListAll(t) ==
    /\ CanStart(t)
    /\ nops' = nops + 1
    /\ Commit(memories, heap, locks, files, t,
              [Finish([IdleTask EXCEPT !.op = "list_all"], Ok(NoSnap)) EXCEPT
                  !.listing = [i \in 1..Len(memories) |-> memories[i].key]])

\* MemoryRegistry.list with keywords
List(t, query) ==
    /\ CanStart(t)
    /\ nops' = nops + 1
    /\ LET sorted == sort_reverse(scored_keywords(memories, query)) IN
       Commit(memories, heap, locks, files, t,
              [Finish([IdleTask EXCEPT !.op = "list", !.query = query], Ok(NoSnap)) EXCEPT
                  !.scored = sorted,
                  !.listing = [i \in 1..Len(sorted) |-> sorted[i].key]])

(***************************************************************************)
(* MemoryRegistry.__init__                                                 *)
(***************************************************************************)
EmptyDir == [s \in {} |-> None]
\* the .memories directories a backend starts on: empty, or files the registry wrote
InitDirs ==
    { EmptyDir,
      write_file(EmptyDir, <<"a">>, <<"x", "z">>),
      write_file(write_file(EmptyDir, <<"a">>, <<"z">>), <<"a", "-", "b">>, <<"x", "x">>) }

\* _load_metadata over the names in the order glob lists them: every name whose
\* keywords pass validate_keywords is registered as an unloaded Memory
RECURSIVE load_metadata(_, _)
load_metadata(names, mems) ==
    IF names = <<>> THEN mems
    ELSE LET keywords == extract_keywords_from_filename(Head(names))
             vk == validate_keywords(keywords)
             \* the Memory that create_lazy makes: an object no earlier name made
             memory == 1 + Cardinality({o \in ObjIds : \E i \in 1..Len(mems) : mems[i].obj >= o})
         IN IF ~vk.ok THEN load_metadata(Tail(names), mems)
            ELSE IF keywords \in Keys(mems)
            THEN load_metadata(Tail(names),
                               [i \in 1..Len(mems) |->
                                   IF mems[i].key = keywords
                                   THEN [mems[i] EXCEPT !.obj = memory] ELSE mems[i]])
            ELSE load_metadata(Tail(names), DictSet(mems, keywords, memory))

\* the orders glob can list a directory in
Listings(d) == {q \in [1..Cardinality(DOMAIN d) -> DOMAIN d] : Range(q) = DOMAIN d}

StoreInit ==
    /\ files \in InitDirs
    /\ \E names \in Listings(files) :
          /\ memories = load_metadata(names, <<>>)
          /\ heap = [o \in ObjIds |->
                        IF \E i \in 1..Len(memories) : memories[i].obj = o
                        THEN NewMemory(memories[CHOOSE i \in 1..Len(memories) : memories[i].obj = o].key)
                        ELSE NoMemory]
    /\ locks = [o \in LockIds |-> Unlocked]
    /\ tasks = [t \in Tasks |-> IdleTask]
    /\ nops = 0

\* BackendServer.__init__, and run up to the start of the monitor: no task, the
\* activity stamp set to the time of the start, the monitor in its first sleep.
\* idle_time is the time since last_activity, kept up to shutdown_idle; quiet,
\* site is the port of the started TCPSite (0: not started).
\* responses holds the status of the response each handler returned, outcomes how
\* each _memorize_task ended.  hb_age and done_age are the times since the latest arrival or heartbeat, the
\* latest heartbeat and the latest end of an operation (-1: none yet)
Requests == 1..MaxRequests
\* the port the OS gives to the backend's TCPSite(runner, "127.0.0.1", 0)
Port(b) == NBackends + b
InitServer ==
    [active_tasks |-> 0, idle_time |-> 0, sleep_left |-> shutdown_check_interval,
     monitor |-> "sleeping", shutdown_event |-> FALSE, site |-> Port(1),
     handlers |-> [r \in Requests |-> "idle"],
     responses |-> [r \in Requests |-> "none"], outcomes |-> [r \in Requests |-> "none"],
     quiet |-> 0, hb_age |-> -1, done_age |-> -1]

\* no backend or client process takes part in the registry's runs
LockIdle ==
    /\ inodes = <<>>
    /\ path = 0
    /\ backends = <<>>
    /\ clients = <<>>
    /\ nsteps = 0
    /\ server = InitServer

Init == StoreInit /\ LockIdle

Next ==
    \/ \E t \in Tasks : CanStart(t) /\ \E k \in KeywordArgs, c \in CreateTexts : CreateStart(t, k, c)
    \/ \E t \in Tasks, v \in Verdicts : CreateOracle(t, v)
    \/ \E t \in Tasks : CanStart(t) /\ \E k \in LookupArgs : \E v \in VersionArgs(k) : \E old \in OldFragments, new \in NewFragments :
          UpdateStart(t, k, old, new, v)
    \/ \E t \in Tasks : UpdateLocked(t)
    \/ \E t \in Tasks, v \in Verdicts : UpdateOracle(t, v)
    \/ \E t \in Tasks : CanStart(t) /\ \E k \in LookupArgs : \E v \in VersionArgs(k) : \E nk \in KeywordArgs :
          ReassignStart(t, k, nk, v)
    \/ \E t \in Tasks : ReassignLocked(t)
    \/ \E t \in Tasks, v \in Verdicts : ReassignOracle(t, v)
    \/ \E t \in Tasks : CanStart(t) /\ \E k \in LookupArgs : \E v \in VersionArgs(k) : Delete(t, k, v)
    \/ \E t \in Tasks, k \in LookupArgs : Read(t, k)

Spec == Init /\ [][Next]_vars

\* a coroutine that waits goes on: the oracle call it awaits returns, and the
\* event loop runs the waiter that a released lock has woken
TaskNext(t) ==
    \/ \E v \in Verdicts : CreateOracle(t, v) \/ UpdateOracle(t, v) \/ ReassignOracle(t, v)
    \/ UpdateLocked(t) \/ ReassignLocked(t)
RegistryLive == Spec /\ \A t \in Tasks : WF_vars(TaskNext(t))

\* the coroutine of an operation is cancelled while it awaits the oracle
Cancel(t) ==
    \/ CreateOracle(t, "cancelled")
    \/ UpdateOracle(t, "cancelled")
    \/ ReassignOracle(t, "cancelled")
CancelNext == Next \/ \E t \in Tasks : Cancel(t)
CancelSpec == Init /\ [][CancelNext]_vars

\* the names of the .md files found at the start: names the registry writes, the
\* same tokens in another order or twice, an uppercase token, an empty token, a
\* token without a letter
DirNames == { <<"a">>, <<"a", "-", "b">>, <<"b", "-", "a">>, <<"a", "-", "a">>,
              <<"A">>, <<"a", "-", "-", "b">>, <<"1">> }
LoadDirs ==
    UNION {[names -> {<<"x">>, <<"z">>}] : names \in {S \in SUBSET DirNames : Cardinality(S) <= MaxFiles}}

\* MemoryRegistry.__init__ on any of these directories, listed in any order
LoadInit ==
    /\ files \in LoadDirs
    /\ \E names \in Listings(files) :
          /\ memories = load_metadata(names, <<>>)
          /\ heap = [o \in ObjIds |->
                        IF \E i \in 1..Len(memories) : memories[i].obj = o
                        THEN NewMemory(memories[CHOOSE i \in 1..Len(memories) : memories[i].obj = o].key)
                        ELSE NoMemory]
    /\ locks = [o \in LockIds |-> Unlocked]
    /\ tasks = [t \in Tasks |-> IdleTask]
    /\ nops = 0
    /\ LockIdle

\* the registry is read after its construction
LoadNext == \E t \in Tasks, k \in LookupArgs : Read(t, k)

LoadSpec == LoadInit /\ [][LoadNext]_vars

\* a registry constructed on a directory of up to MaxKeys files, one per key,
\* listed in any order; then list is called
ListDicts ==
    {q \in UNION {[1..n -> ListKeys] : n \in 0..MaxKeys} :
        \A i, j \in 1..Len(q) : i # j => q[i] # q[j]}
ListInit ==
    /\ \E q \in ListDicts :
          /\ memories = [i \in 1..Len(q) |-> [key |-> q[i], obj |-> i]]
          /\ files = [f \in {get_file_path(q[i]) : i \in 1..Len(q)} |-> <<"x">>]
          /\ heap = [o \in ObjIds |-> IF o <= Len(q) THEN NewMemory(q[o]) ELSE NoMemory]
    /\ locks = [o \in LockIds |-> Unlocked]
    /\ tasks = [t \in Tasks |-> IdleTask]
    /\ nops = 0
    /\ LockIdle

ListNext ==
    \/ \E t \in Tasks : ListAll(t)
    \/ \E t \in Tasks : CanStart(t) /\ \E q \in ListQueries : List(t, q)

ListSpec == ListInit /\ [][ListNext]_vars

(***************************************************************************)
(* BackendLock and FrontendClient._discover_backend                        *)
(*                                                                         *)
(* The lock file is a directory entry (path) naming an inode; path = 0 is  *)
(* no file.  FileLock holds an exclusive flock on the inode it opened, not *)
(* on the name: an unlink leaves the inode, and a lock on it, in place.    *)
(* Each process is identified by its pid; every statement that makes a     *)
(* system call is one step, since other processes run between them.        *)
(***************************************************************************)
Backends == 1..NBackends
Clients == 1..NClients

NewInode == [locked |-> 0, text |-> <<>>]
\* zombie: the process has ended and nobody has waited for it
InitBackend == [pc |-> "init", fd |-> 0, alive |-> FALSE, lost |-> 0, zombie |-> FALSE]
\* caller: where _discover_backend was called from, and the position in that caller;
\* polls: the polls of _start_backend begun
InitClient == [pc |-> "idle", pid |-> 0, port |-> 0, found |-> FALSE, backend_url |-> 0, since |-> {},
               caller |-> "none", polls |-> 0]

\* the file FileLock.acquire opens: created when missing; the open may truncate it
open_lock(ino, p, trunc) ==
    IF p = 0 THEN Append(ino, NewInode)
    ELSE IF trunc THEN [ino EXCEPT ![p].text = <<>>] ELSE ino
\* a write that leaves the text of the file as it was
no_write(ino, p, text) == IF p = 0 THEN Append(ino, NewInode) ELSE ino
\* Path.write_text: creates the file when missing, replaces its text
write_text(ino, p, text) ==
    IF p = 0 THEN Append(ino, [NewInode EXCEPT !.text = text])
    ELSE [ino EXCEPT ![p].text = text]
\* a process whose locks outlive it
locks_kept(ino, b) == ino
\* the locks a process holds end with it
death(ino, b) == [i \in 1..Len(ino) |-> IF ino[i].locked = b THEN [ino[i] EXCEPT !.locked = 0] ELSE ino[i]]

\* processes are launched in the order of their pids
Launchable(b) == backends[b].pc = "init" /\ \A p \in Backends : p < b => backends[p].pc # "init"

\* BackendServer.run, BackendLock.acquire: one non-blocking attempt; on Timeout
\* the process exits
acquire(b, trunc) ==
    /\ Launchable(b)
    /\ LET opened == open_lock(inodes, path, trunc)
           p == IF path = 0 THEN Len(inodes) + 1 ELSE path
       IN /\ path' = p
          /\ IF opened[p].locked = 0
             THEN /\ inodes' = [opened EXCEPT ![p].locked = b]
                  /\ backends' = [backends EXCEPT ![b] = [@ EXCEPT !.pc = "acquired", !.fd = p, !.alive = TRUE]]
             ELSE /\ inodes' = opened
                  /\ backends' = [backends EXCEPT ![b] = [@ EXCEPT !.pc = "exited", !.lost = opened[p].locked, !.zombie = TRUE]]
    /\ UNCHANGED <<clients, nsteps>>
    /\ UNCHANGED <<storeVars, server>>

\* BackendLock.write_info(os.getpid(), actual_port)
lock_write_info(b, actual_port) ==
    /\ backends[b].pc = "acquired"
    /\ inodes' = write_text(inodes, path, <<b, actual_port>>)
    /\ path' = IF path = 0 THEN Len(inodes) + 1 ELSE path
    /\ backends' = [backends EXCEPT ![b].pc = "running"]
    /\ UNCHANGED <<clients, nsteps>>
    /\ UNCHANGED storeVars

\* BackendServer.run once the site is started: BackendLock.write_info
write_info(b) == lock_write_info(b, Port(b)) /\ UNCHANGED server

\* BackendLock.release, first statement, on shutdown or on an exception of run:
\* FileLock.release unlocks and closes
release(b) ==
    /\ backends[b].pc \in {"acquired", "running"}
    /\ inodes' = [inodes EXCEPT ![backends[b].fd].locked = 0]
    /\ backends' = [backends EXCEPT ![b] = [@ EXCEPT !.pc = "released", !.fd = 0]]
    /\ UNCHANGED <<path, clients, nsteps>>
    /\ UNCHANGED <<storeVars, server>>

\* BackendLock.release, second statement: unlink(missing_ok); the process ends
release_unlink(b) ==
    /\ backends[b].pc = "released"
    /\ path' = 0
    /\ backends' = [backends EXCEPT ![b] = [@ EXCEPT !.pc = "exited", !.alive = FALSE, !.zombie = TRUE]]
    /\ UNCHANGED <<inodes, clients, nsteps>>
    /\ UNCHANGED <<storeVars, server>>

\* a loop that polls on after a poll found the backend
polls_on(cl) ==
    IF cl.caller = "ensure"
    THEN [cl EXCEPT !.caller = IF cl.found THEN "returned" ELSE "spawn"]
    ELSE IF cl.caller = "poll"
    THEN [cl EXCEPT !.caller = IF cl.polls = MaxPolls THEN "raised" ELSE "sleep"]
    ELSE cl
\* the code that awaits _discover_backend goes on. _ensure_backend: return when a
\* backend was found, _start_backend otherwise. The loop of _start_backend: return
\* when the poll found a backend, RuntimeError after the last poll, sleep otherwise
resume(cl) ==
    IF cl.caller = "ensure"
    THEN [cl EXCEPT !.caller = IF cl.found THEN "returned" ELSE "spawn"]
    ELSE IF cl.caller = "poll"
    THEN [cl EXCEPT !.caller = IF cl.found THEN "returned"
                               ELSE IF cl.polls = MaxPolls THEN "raised" ELSE "sleep"]
    ELSE cl

\* a discovery that reports found and keeps the address it had
found_unset(cl, url) == [cl EXCEPT !.pc = "done", !.found = TRUE]
\* _discover_backend returns
Found(cl, url) == resume([cl EXCEPT !.pc = "done", !.found = TRUE, !.backend_url = url])
NotFound(cl) == resume([cl EXCEPT !.pc = "done", !.found = FALSE])

\* _discover_backend: lock_file.exists()
discover_exists(c) ==
    /\ clients[c].pc \in {"idle", "done"}
    /\ nsteps < MaxDiscovers
    /\ nsteps' = nsteps + 1
    /\ LET cl == [clients[c] EXCEPT !.since = {b \in Backends : backends[b].lost # 0}] IN
       clients' = [clients EXCEPT ![c] = IF path = 0 THEN NotFound(cl) ELSE [cl EXCEPT !.pc = "read"]]
    /\ UNCHANGED <<inodes, path, backends>>
    /\ UNCHANGED <<storeVars, server>>

\* _discover_backend: read_text and the parse; a missing file raises into the
\* outer except, fewer than two lines return False
discover_read(c) ==
    /\ clients[c].pc = "read"
    /\ clients' = [clients EXCEPT ![c] =
          IF path = 0 \/ Len(inodes[IF path = 0 THEN 1 ELSE path].text) < 2 THEN NotFound(@)
          ELSE [@ EXCEPT !.pc = "alive", !.pid = inodes[path].text[1], !.port = inodes[path].text[2]]]
    /\ UNCHANGED <<inodes, path, backends, nsteps>>
    /\ UNCHANGED <<storeVars, server>>

\* os.kill(pid, sig) raises OSError when there is no process pid; a zombie is one
kill_succeeds(pid) == backends[pid].alive \/ backends[pid].zombie

\* _discover_backend: _is_process_alive(pid), which is os.kill(pid, 0)
is_process_alive(c) ==
    /\ clients[c].pc = "alive"
    /\ clients' = [clients EXCEPT ![c].pc = IF kill_succeeds(clients[c].pid) THEN "probe" ELSE "stale"]
    /\ UNCHANGED <<inodes, path, backends, nsteps>>
    /\ UNCHANGED <<storeVars, server>>

\* _discover_backend, dead pid: lock_file.unlink(missing_ok=True)
discover_unlink(c) ==
    /\ clients[c].pc = "stale"
    /\ path' = 0
    /\ clients' = [clients EXCEPT ![c].pc = "kill"]
    /\ UNCHANGED <<inodes, backends, nsteps>>
    /\ UNCHANGED <<storeVars, server>>

\* _discover_backend: GET /health within 5 s; 200 only from a running backend on
\* that port, and a running backend may fail to answer in time
health_check(c, ok) ==
    /\ clients[c].pc = "probe"
    /\ ok => /\ backends[clients[c].pid].pc = "running"
             /\ clients[c].port = Port(clients[c].pid)
    /\ clients' = [clients EXCEPT ![c] = IF ok THEN Found(@, clients[c].port) ELSE [@ EXCEPT !.pc = "kill"]]
    /\ UNCHANGED <<inodes, path, backends, nsteps>>
    /\ UNCHANGED <<storeVars, server>>

\* a process ended by a signal: its locks end with it, it is a zombie until waited for
killed(bk) == [bk EXCEPT !.pc = "killed", !.fd = 0, !.alive = FALSE, !.zombie = TRUE]
\* os.waitpid(pid, 0): reaps a child of the caller, raises OSError for any other process
waitpid(bk, child) == IF child THEN [bk EXCEPT !.zombie = FALSE] ELSE bk

\* _cleanup_backend: os.kill(pid, 9) and os.waitpid(pid, 0); each OSError is swallowed
cleanup_kill(c, child) ==
    /\ clients[c].pc = "kill"
    /\ LET b == clients[c].pid IN
       IF kill_succeeds(b)
       THEN /\ backends' = [backends EXCEPT ![b] = waitpid(IF @.alive THEN killed(@) ELSE @, child)]
            /\ inodes' = death(inodes, b)
       ELSE UNCHANGED <<backends, inodes>>
    /\ clients' = [clients EXCEPT ![c].pc = "unlink"]
    /\ UNCHANGED <<path, nsteps>>
    /\ UNCHANGED <<storeVars, server>>

\* _cleanup_backend: lock_file.unlink(missing_ok=True); _discover_backend returns False
cleanup_unlink(c) ==
    /\ clients[c].pc = "unlink"
    /\ path' = 0
    /\ clients' = [clients EXCEPT ![c] = NotFound(@)]
    /\ UNCHANGED <<inodes, backends, nsteps>>
    /\ UNCHANGED <<storeVars, server>>

\* a backend is killed from outside (a crash, SIGTERM, SIGKILL): run has no
\* signal handler, so the finally clause with BackendLock.release does not run
sigkill(b) ==
    /\ backends[b].alive
    /\ backends' = [backends EXCEPT ![b] = killed(@)]
    /\ inodes' = death(inodes, b)
    /\ UNCHANGED <<path, clients, nsteps>>
    /\ UNCHANGED <<storeVars, server>>

\* the process that launched a backend kept no reference to it: the zombie is
\* reaped when the launcher starts another process or ends
reap(b) ==
    /\ backends[b].zombie
    /\ backends' = [backends EXCEPT ![b].zombie = FALSE]
    /\ UNCHANGED <<inodes, path, clients, nsteps>>
    /\ UNCHANGED <<storeVars, server>>

\* a project whose .memories directory is empty and whose registry is at rest
StoreIdle ==
    /\ files = EmptyDir
    /\ memories = <<>>
    /\ heap = [o \in ObjIds |-> NoMemory]
    /\ locks = [o \in LockIds |-> Unlocked]
    /\ tasks = [t \in Tasks |-> IdleTask]
    /\ nops = 0

LockInit ==
    /\ StoreIdle
    /\ inodes = <<>>
    /\ path = 0
    /\ backends = [b \in Backends |-> InitBackend]
    /\ clients = [c \in Clients |-> InitClient]
    /\ nsteps = 0
    /\ server = InitServer

LockNext ==
    \/ \E b \in Backends, trunc \in BOOLEAN : acquire(b, trunc)
    \/ \E b \in Backends : write_info(b)
    \/ \E b \in Backends : release(b)
    \/ \E b \in Backends : release_unlink(b)
    \/ \E c \in Clients : discover_exists(c)
    \/ \E c \in Clients : discover_read(c)
    \/ \E c \in Clients : is_process_alive(c)
    \/ \E c \in Clients : discover_unlink(c)
    \/ \E c \in Clients, ok \in BOOLEAN : health_check(c, ok)
    \/ \E c \in Clients, child \in BOOLEAN : cleanup_kill(c, child)
    \/ \E c \in Clients : cleanup_unlink(c)
    \/ \E b \in Backends : sigkill(b)
    \/ \E b \in Backends : reap(b)

LockSpec == LockInit /\ [][LockNext]_vars

(***************************************************************************)
(* Memory._generate_version with its digest                                *)
(***************************************************************************)
\* the keyword lists and the contents a version is generated for
KeywordLists == UNION {[1..n -> {<<"a">>, <<"b">>}] : n \in 1..2}
VersionTexts == { <<>>, <<"x">>, <<"y">>, <<"x", "y">> }

\* Memory.create once its validations passed: a Memory of frozenset(keywords) is
\* given the content and generates its version
memory_create(t, keywords, content) ==
    /\ tasks[t].pc = "idle"
    /\ tasks' = [tasks EXCEPT ![t] =
                    [IdleTask EXCEPT !.op = "version", !.pc = "done", !.query = keywords,
                                     !.keywords = Range(keywords), !.content = content,
                                     !.version = version_digest(Range(keywords), content)]]
    /\ UNCHANGED <<memories, heap, locks, files, nops, lockVars, server>>

\* Memory.set_content once its validations passed: the content is assigned and
\* the version is generated again
set_content(t, content) ==
    /\ tasks[t].pc = "done"
    /\ tasks' = [tasks EXCEPT ![t].content = content,
                              ![t].version = version_digest(tasks[t].keywords, content)]
    /\ UNCHANGED <<memories, heap, locks, files, nops, lockVars, server>>

VersionInit == StoreIdle /\ LockIdle

VersionNext ==
    \/ \E t \in Tasks, k \in KeywordLists, c \in VersionTexts : memory_create(t, k, c)
    \/ \E t \in Tasks, c \in VersionTexts : set_content(t, c)

VersionSpec == VersionInit /\ [][VersionNext]_vars

(***************************************************************************)
(* FrontendClient: start, _ensure_backend, _start_backend and the heartbeat.    *)
(* The backends here are the processes the clients spawn.                  *)
(***************************************************************************)
Starters == 1..NStarters
\* _discover_backend is called: lock_file.exists()
begin_discover(cl) == IF path = 0 THEN NotFound(cl) ELSE [cl EXCEPT !.pc = "read"]
\* the next process subprocess.Popen would make
Unborn(b) == backends[b].pc = "unborn" /\ \A p \in Backends : p < b => backends[p].pc # "unborn"
ClientStep(c, cl) ==
    /\ clients' = [clients EXCEPT ![c] = cl]
    /\ UNCHANGED <<inodes, path, backends, nsteps>>
    /\ UNCHANGED <<storeVars, server>>

\* start: _ensure_backend takes its lock and calls _discover_backend
start(c) ==
    /\ clients[c].caller = "none"
    /\ ClientStep(c, begin_discover([clients[c] EXCEPT !.caller = "ensure"]))

\* _start_backend up to the first sleep: subprocess.Popen of a backend
start_backend(c) ==
    /\ clients[c].caller = "spawn"
    /\ \E b \in Backends :
          /\ Unborn(b)
          /\ backends' = [backends EXCEPT ![b].pc = "init"]
    /\ clients' = [clients EXCEPT ![c] = [@ EXCEPT !.caller = "sleep", !.polls = 0]]
    /\ UNCHANGED <<inodes, path, nsteps>>
    /\ UNCHANGED <<storeVars, server>>

\* _start_backend: the sleep of 0.5 s ends and the next poll begins
poll(c) ==
    /\ clients[c].caller = "sleep"
    /\ ClientStep(c, begin_discover([clients[c] EXCEPT !.caller = "poll", !.polls = @ + 1]))

\* _heartbeat_loop: the POST to backend_url fails (no backend listens there, or
\* it does not answer within 2 s) and _ensure_backend is called
heartbeat_error(c) ==
    /\ clients[c].caller = "returned"
    /\ ClientStep(c, begin_discover([clients[c] EXCEPT !.caller = "ensure"]))

StartInit ==
    /\ StoreIdle
    /\ inodes = <<>>
    /\ path = 0
    /\ backends = [b \in Backends |-> [InitBackend EXCEPT !.pc = "unborn"]]
    /\ clients = [c \in Clients |-> InitClient]
    /\ nsteps = 0
    /\ server = InitServer

StartNext ==
    \/ \E c \in Starters : start(c)
    \/ \E c \in Starters : start_backend(c)
    \/ \E c \in Starters : poll(c)
    \/ \E c \in Starters : heartbeat_error(c)
    \/ \E c \in Starters : discover_read(c)
    \/ \E c \in Starters : is_process_alive(c)
    \/ \E c \in Starters : discover_unlink(c)
    \/ \E c \in Starters, ok \in BOOLEAN : health_check(c, ok)
    \/ \E c \in Starters, child \in BOOLEAN : cleanup_kill(c, child)
    \/ \E c \in Starters : cleanup_unlink(c)
    \/ \E b \in Backends, trunc \in BOOLEAN : acquire(b, trunc)
    \/ \E b \in Backends : write_info(b)
    \/ \E b \in Backends : sigkill(b)
    \/ \E b \in Backends : reap(b)

StartSpec == StartInit /\ [][StartNext]_vars

\* every coroutine of a client that can run is run: each await of _start_backend
\* and of _discover_backend ends, by its answer or by its timeout
ClientNext(c) ==
    \/ start_backend(c) \/ poll(c) \/ discover_read(c) \/ is_process_alive(c) \/ discover_unlink(c)
    \/ \E ok \in BOOLEAN : health_check(c, ok)
    \/ \E child \in BOOLEAN : cleanup_kill(c, child)
    \/ cleanup_unlink(c)
StartLive == StartSpec /\ \A c \in Starters : WF_vars(ClientNext(c))

\* the heartbeat of a client goes on: the POST to a backend that was killed fails.
\* A spawned backend runs: it tries the lock and writes its {pid, port}; and a
\* running backend that is probed again and again answers one of the probes
RecoverLive ==
    /\ StartLive
    /\ \A c \in Starters : WF_vars(heartbeat_error(c) /\ backends[clients[c].backend_url - NBackends].pc = "killed")
    /\ \A c \in Starters : SF_vars(health_check(c, TRUE))
    /\ \A b \in Backends : WF_vars(\E trunc \in BOOLEAN : acquire(b, trunc))
    /\ \A b \in Backends : WF_vars(write_info(b))

(***************************************************************************)
(* BackendServer: the handlers, the heartbeat and auto_shutdown_monitor of *)
(* backend 1, which holds the lock and has written its {pid, port}.  Every *)
(* action is the code of one coroutine between two awaits.                 *)
(***************************************************************************)
\* the backend serves from write_info until BackendLock.release
Serving == backends[1].pc = "running"
\* requests arrive in the order of their numbers
Arrives(r) ==
    /\ Serving
    /\ server.handlers[r] = "idle"
    /\ \A q \in Requests : q < r => server.handlers[q] # "idle"
\* self.last_activity = asyncio.get_event_loop().time()
touched(srv) == [srv EXCEPT !.idle_time = 0]
\* an end that skips the finally clause
not_restored(srv) == srv
\* the end of an operation: active_tasks -= 1 in the finally clause, and nothing else
finished(srv) == [srv EXCEPT !.active_tasks = @ - 1]
ServerStep(srv) ==
    /\ server' = srv
    /\ UNCHANGED <<storeVars, lockVars>>
\* return web.json_response({"status": status, ...})
respond(srv, r, status) == [srv EXCEPT !.responses[r] = status]
\* a call that runs the coroutine up to its first await
run_now(srv, r) == [srv EXCEPT !.active_tasks = @ + 1, !.handlers[r] = "memorize"]
\* asyncio.create_task(self._memorize_task(content)): the coroutine is scheduled
create_task(srv, r) == [srv EXCEPT !.handlers[r] = "scheduled"]
\* how memorize_memory ends: the agent called done, the agent ran out of
\* iterations, an exception, which memorize_memory logs and raises again, or the
\* CancelledError of a cancelled task
Outcomes == {"done", "timeout", "raise", "cancelled"}

\* handle_recall up to its first await
handle_recall(r) ==
    /\ Arrives(r)
    /\ ServerStep([touched(server) EXCEPT !.active_tasks = @ + 1, !.quiet = 0,
                                          !.handlers[r] = "recall"])

\* handle_recall from the return (or the exception) of recall_memory: the success
\* response, the error response of the except clause, or no response when the
\* handler is cancelled (CancelledError is no Exception); the finally clause runs
\* in each case
recall_done(r) ==
    /\ Serving
    /\ server.handlers[r] = "recall"
    /\ LET srv == [finished(server) EXCEPT !.done_age = 0, !.handlers[r] = "done"] IN
       \/ \E status \in {"success", "error"} : ServerStep(respond(srv, r, status))
       \/ ServerStep(srv)

\* handle_memorize up to await request.json()
handle_memorize(r) ==
    /\ Arrives(r)
    /\ ServerStep([touched(server) EXCEPT !.quiet = 0, !.handlers[r] = "body"])

\* handle_memorize from the body: create_task(_memorize_task) and the accepted
\* response, or the error response when the body is no valid request
memorize_accepted(r, valid) ==
    /\ Serving
    /\ server.handlers[r] = "body"
    /\ IF valid
       THEN ServerStep(respond(create_task(server, r), r, "accepted"))
       ELSE ServerStep(respond([server EXCEPT !.handlers[r] = "done"], r, "error"))

\* _memorize_task up to await memorize_memory
memorize_task(r) ==
    /\ Serving
    /\ server.handlers[r] = "scheduled"
    /\ ServerStep([server EXCEPT !.active_tasks = @ + 1, !.handlers[r] = "memorize"])

\* _memorize_task from the return (or the exception) of memorize_memory
memorize_done(r) ==
    /\ Serving
    /\ server.handlers[r] = "memorize"
    /\ \E outcome \in Outcomes :
          ServerStep([finished(server) EXCEPT !.done_age = 0, !.handlers[r] = "done",
                                              !.outcomes[r] = outcome])

\* handle_heartbeat
handle_heartbeat ==
    /\ Serving
    /\ ServerStep([touched(server) EXCEPT !.quiet = 0, !.hb_age = 0])

\* one tick of the clock of the event loop
Aged(age) == IF age = -1 \/ age >= shutdown_idle THEN age ELSE age + 1
Tick ==
    /\ ~server.shutdown_event
    /\ ServerStep([server EXCEPT !.idle_time = Aged(@), !.quiet = Aged(@), !.hb_age = Aged(@),
                                 !.done_age = Aged(@),
                                 !.sleep_left = IF @ > 0 THEN @ - 1 ELSE 0])

\* a monitor whose test is always false
never_shutdown(active_tasks, idle_time) == FALSE
\* a monitor that looks at the idle time alone
idle_alone(active_tasks, idle_time) == idle_time >= shutdown_idle
\* the test of auto_shutdown_monitor
should_shutdown(active_tasks, idle_time) == active_tasks = 0 /\ idle_time >= shutdown_idle

\* auto_shutdown_monitor from the return of its sleep: set the event and return,
\* or sleep again
auto_shutdown_monitor ==
    /\ Serving
    /\ server.monitor = "sleeping" /\ server.sleep_left = 0
    /\ IF should_shutdown(server.active_tasks, server.idle_time)
       THEN ServerStep([server EXCEPT !.shutdown_event = TRUE, !.monitor = "returned"])
       ELSE ServerStep([server EXCEPT !.sleep_left = shutdown_check_interval])

\* run from the return of _shutdown_event.wait(): the finally clause releases the lock
run_returns == server.shutdown_event /\ release(1)

\* backend 1 runs: it holds the lock on the lock file, which names its pid and port
ServerInit ==
    /\ StoreIdle
    /\ inodes = <<[locked |-> 1, text |-> <<1, Port(1)>>]>>
    /\ path = 1
    /\ backends = [b \in Backends |->
                     IF b = 1 THEN [pc |-> "running", fd |-> 1, alive |-> TRUE, lost |-> 0, zombie |-> FALSE]
                     ELSE InitBackend]
    /\ clients = [c \in Clients |-> InitClient]
    /\ nsteps = 0
    /\ server = InitServer

ServerNext ==
    \/ \E r \in Requests : handle_recall(r)
    \/ \E r \in Requests : recall_done(r)
    \/ \E r \in Requests : handle_memorize(r)
    \/ \E r \in Requests, valid \in BOOLEAN : memorize_accepted(r, valid)
    \/ \E r \in Requests : memorize_task(r)
    \/ \E r \in Requests : memorize_done(r)
    \/ handle_heartbeat
    \/ Tick
    \/ auto_shutdown_monitor
    \/ run_returns
    \/ release_unlink(1)

ServerSpec == ServerInit /\ [][ServerNext]_vars

\* BackendServer.__init__ of backend 1 before run: no site, no monitor
NewServer == [InitServer EXCEPT !.site = 0, !.monitor = "none"]

\* run from the acquired lock to the return of site.start(): the registry is
\* constructed, the runner set up, the site bound to a port that the OS chooses
site_start ==
    /\ backends[1].pc = "acquired" /\ server.site = 0
    /\ ServerStep([server EXCEPT !.site = Port(1)])

\* run from the return of site.start() to _shutdown_event.wait(): the port of the
\* site is written to the lock file, the activity stamp is set, the monitor started
run_started ==
    /\ server.site # 0
    /\ lock_write_info(1, server.site)
    /\ server' = [touched(server) EXCEPT !.monitor = "sleeping", !.sleep_left = shutdown_check_interval]

\* no backend runs yet
BootInit ==
    /\ StoreIdle
    /\ inodes = <<>>
    /\ path = 0
    /\ backends = [b \in Backends |-> InitBackend]
    /\ clients = [c \in Clients |-> InitClient]
    /\ nsteps = 0
    /\ server = NewServer

BootNext ==
    \/ \E b \in Backends, trunc \in BOOLEAN : acquire(b, trunc)
    \/ site_start
    \/ run_started
    \/ \E b \in Backends \ {1} : write_info(b)
    \/ \E b \in Backends : sigkill(b)
    \/ handle_heartbeat
    \/ Tick
    \/ auto_shutdown_monitor
    \/ run_returns
    \/ release_unlink(1)

BootSpec == BootInit /\ [][BootNext]_vars

\* the clock runs on, and every coroutine that can run is run
ServerLive ==
    /\ ServerSpec
    /\ WF_vars(Tick)
    /\ WF_vars(auto_shutdown_monitor)
    /\ WF_vars(run_returns)
    /\ WF_vars(release_unlink(1))

(***************************************************************************)
(* The ways BackendServer.run ends once BackendLock.acquire has succeeded.  *)
(* Backend 1 serves; the later backends are started beside and after it.   *)
(***************************************************************************)
\* run ends and the process with it
ended(bk) == [bk EXCEPT !.pc = "exited", !.fd = 0, !.alive = FALSE, !.zombie = TRUE]

\* an exception between acquire and write_info (the registry, the site): the
\* except clause of run raises it again and the finally clause releases
startup_error(b) == backends[b].pc = "acquired" /\ release(b)

\* run is cancelled at _shutdown_event.wait(): the finally clause releases
cancelled(b) == backends[b].pc = "running" /\ ~server.shutdown_event /\ release(b)

\* BackendLock.release: FileLock.release raises; except Exception: pass skips the
\* unlink, run ends as it would have, and the flock ends with the process
release_raises(b) ==
    /\ backends[b].pc \in {"acquired", "running"}
    /\ backends' = [backends EXCEPT ![b] = ended(@)]
    /\ inodes' = death(inodes, b)
    /\ UNCHANGED <<path, clients, nsteps>>
    /\ UNCHANGED <<storeVars, server>>

\* BackendLock.release: unlink raises (the directory denies it); except Exception: pass
unlink_raises(b) ==
    /\ backends[b].pc = "released"
    /\ backends' = [backends EXCEPT ![b] = ended(@)]
    /\ UNCHANGED <<inodes, path, clients, nsteps>>
    /\ UNCHANGED <<storeVars, server>>

RunNext ==
    \/ \E b \in Backends, trunc \in BOOLEAN : acquire(b, trunc)
    \/ \E b \in Backends : write_info(b)
    \/ Tick
    \/ auto_shutdown_monitor
    \/ run_returns
    \/ \E b \in Backends : startup_error(b)
    \/ \E b \in Backends : cancelled(b)
    \/ \E b \in Backends : release_unlink(b)
    \/ \E b \in Backends : release_raises(b)
    \/ \E b \in Backends : unlink_raises(b)

RunSpec == ServerInit /\ [][RunNext]_vars

(***************************************************************************)
(* Properties of the registry                                              *)
(***************************************************************************)
Moved(t) == tasks'[t] # tasks[t]
InFlight(t) == tasks[t].pc \in {"lock", "oracle"}
Returned(t, op) == Moved(t) /\ tasks'[t].op = op /\ tasks'[t].pc = "done"
\* what read(K) returns before and after the step
ReadNow(K) == read(memories, heap, files, K)
ReadNext(K) == read(memories', heap', files', K)
\* the step changes neither the dict, nor what read returns for any key, nor any file
StoreUntouched ==
    /\ memories' = memories
    /\ files' = files
    /\ \A K \in Keys(memories) : ReadNext(K) = ReadNow(K)
\* the positions at which old occurs in c, and c with the occurrence at i replaced
Occurrences(c, old) == {i \in 1..(Len(c) - Len(old) + 1) : SubSeq(c, i, i + Len(old) - 1) = old}
Spliced(c, i, old, new) == SubSeq(c, 1, i - 1) \o new \o SubSeq(c, i + Len(old), Len(c))
\* a keyword set of lowercase letters and digits, each token with a letter
WellFormed(K) ==
    /\ K # {}
    /\ \A kw \in K : /\ kw # <<>>
                     /\ \A i \in 1..Len(kw) : kw[i] \in Lower \cup Digit
                     /\ \E i \in 1..Len(kw) : kw[i] \in Lower
SnapOf(K, c) == [keywords |-> K, content |-> c, version |-> generate_version(K, c)]

\* the two calls of C1: the only operations of the run, both updates of the same
\* key carrying the same version, which a read returned when each was called
TwoUpdates ==
    /\ nops = 2
    /\ \A t \in {1, 2} : tasks[t].op = "update" /\ tasks[t].pc = "done" /\ tasks[t].fresh
    /\ tasks[1].keywords = tasks[2].keywords
    /\ tasks[1].version = tasks[2].version

\* C1 as claimed: of two updates of one key carrying the same captured version,
\* exactly one returns success and the other the version-mismatch error, and the
\* final content is the successful call's.
C1_ExactlyOneSucceeds ==
    TwoUpdates =>
        \E w, l \in {1, 2} :
            /\ w # l
            /\ tasks[w].result.kind = "ok"
            /\ tasks[l].result = Err("version_mismatch")
            /\ ReadNow(tasks[w].keywords) = tasks[w].result

\* C1 amended: the call that takes the entity lock first (task 1) decides.  If it
\* succeeds with a replacement that changes the content, the other call returns
\* the version-mismatch error and the final content is the first call's; and
\* whenever the second call succeeds, the first one failed or changed nothing,
\* and the final content is the second call's: no successful update is lost.
C1_NoLostUpdate ==
    TwoUpdates =>
        /\ (tasks[1].result.kind = "ok" /\ tasks[1].old # tasks[1].new)
              => /\ tasks[2].result = Err("version_mismatch")
                 /\ ReadNow(tasks[1].keywords) = tasks[1].result
        /\ tasks[2].result.kind = "ok"
              => /\ tasks[1].result.kind = "ok" => tasks[1].old = tasks[1].new
                 /\ ReadNow(tasks[2].keywords) = tasks[2].result

C1_Witness ==
    /\ TwoUpdates
    /\ tasks[1].result.kind = "ok" /\ tasks[1].old # tasks[1].new
    /\ tasks[2].result = Err("version_mismatch")

\* C4: whenever no operation is in flight, read(K) of every key K of the dict
\* returns the text of K's file and the version of (K, that text).
C4_ReadMatchesFile ==
    (\A t \in Tasks : ~InFlight(t)) =>
        \A K \in Keys(memories) :
            /\ get_file_path(K) \in DOMAIN files
            /\ ReadNow(K) = Ok(SnapOf(K, files[get_file_path(K)]))

\* C5: a create that returns an error leaves the dict, what read returns for
\* every existing entry, and every file unchanged.
C5_CreateAllOrNothing ==
    [][\A t \in Tasks :
          (Returned(t, "create") /\ tasks'[t].result.kind = "err") => StoreUntouched]_vars

\* C6: a step of create, update or reassign that writes text c to the file of
\* keywords K, or puts K into the dict, is taken with the oracle's accept for
\* (K, c), after the size check of c, after the syntax check of K.
FilesWritten == {f \in DOMAIN files' : f \notin DOMAIN files \/ files'[f] # files[f]}
KeysPut == {K \in Keys(memories') : find_memory(memories', K) # find_memory(memories, K)}
PassedValidation(tk, K, c) ==
    /\ tk.verdict = "accept"
    /\ WellFormed(K)
    /\ count_words_mixed(c) <= MAX_FILE_SIZE
    /\ Len(tk.checks) >= 2
    /\ tk.checks[Len(tk.checks) - 1] = Check("size", {}, c)
    /\ tk.checks[Len(tk.checks)] = Check("oracle", K, c)
    /\ tk.op \in {"create", "reassign"} => tk.checks[1] = Check("keywords", K, None)
C6_ValidationPrecedesPersistence ==
    [][\A t \in Tasks : Moved(t) =>
          /\ FilesWritten # {} \/ KeysPut # {} => tasks'[t].op \in {"create", "update", "reassign"}
          /\ \A f \in FilesWritten :
                \E K \in {tasks'[t].keywords, tasks'[t].new_keywords} :
                    get_file_path(K) = f /\ PassedValidation(tasks'[t], K, files'[f])
          /\ \A K \in KeysPut : PassedValidation(tasks'[t], K, ReadNext(K).snap.content)]_vars

C6_Witness ==
    \E t \in Tasks :
        /\ tasks[t].op = "update" /\ tasks[t].result.kind = "ok"
        /\ get_file_path(tasks[t].keywords) \in DOMAIN files
        /\ files[get_file_path(tasks[t].keywords)] = tasks[t].result.snap.content

\* C7: while an update or reassign of key K holds K's entry between its version
\* check and its return, no step of another update, reassign or delete of K
\* reads K's version for its own check, nor changes what read(K) returns, K's
\* file or K's dict entry.
ChecksVersion(t) ==
    \/ tasks'[t].pc = "oracle"
    \/ tasks'[t].pc = "done" /\ tasks'[t].result.err \notin {"not_found", "FileNotFoundError"}
C7_SameKeyExclusive ==
    [][\A a, t \in Tasks :
          LET K == tasks[a].keywords IN
          (/\ a # t
           /\ tasks[a].op \in {"update", "reassign"} /\ tasks[a].pc = "oracle"
           /\ find_memory(memories, K) = tasks[a].obj
           /\ Moved(t)
           /\ tasks'[t].op \in {"update", "reassign", "delete"} /\ tasks'[t].keywords = K)
          => /\ ~ChecksVersion(t)
             /\ ReadNext(K) = ReadNow(K)
             /\ find_memory(memories', K) = find_memory(memories, K)
             /\ get_file_path(K) \in DOMAIN files' <=> get_file_path(K) \in DOMAIN files]_vars

\* C8: an update of an existing key K carrying K's current version returns the
\* fragment-not-found error when old_content occurs nowhere in the content, the
\* ambiguity error carrying n when it occurs n >= 2 times, and with one
\* occurrence replaces it and validates the result: over the size limit is the
\* size error, else the oracle is asked, and on its accept the result is written
\* to K's file and returned as K's snapshot.  A stale version is reported
\* before any look at the fragment.
UpdateChecked(t) ==
    LET K == tasks'[t].keywords
        cur == ReadNow(K).snap
        old == tasks'[t].old
        at == Occurrences(cur.content, old)
        n == Cardinality(at)
        res == tasks'[t].result
    IN  IF tasks'[t].version # cur.version THEN res = Err("version_mismatch")
        ELSE IF n = 0 THEN res = Err("fragment_not_found")
        ELSE IF n >= 2 THEN res = ErrCount("fragment_ambiguous", n)
        ELSE LET upd == Spliced(cur.content, CHOOSE i \in at : TRUE, old, tasks'[t].new) IN
             IF count_words_mixed(upd) > MAX_FILE_SIZE THEN res = Err("oversize")
             ELSE tasks'[t].pc = "oracle" /\ tasks'[t].pending = upd
UpdateStored(t) ==
    LET K == tasks[t].keywords
        c == tasks[t].pending
    IN  /\ tasks'[t].result = Ok(SnapOf(K, c))
        /\ get_file_path(K) \in DOMAIN files' /\ files'[get_file_path(K)] = c
        /\ find_memory(memories, K) = tasks[t].obj => ReadNext(K) = Ok(SnapOf(K, c))
C8_UpdateFragments ==
    [][\A t \in Tasks : (Moved(t) /\ tasks'[t].op = "update") =>
          LET K == tasks'[t].keywords IN
          /\ (/\ tasks[t].pc # "oracle" /\ tasks'[t].pc # "lock"
              /\ ReadNow(K).kind = "ok"
              /\ tasks[t].pc = "lock" => tasks[t].obj = find_memory(memories, K))
                => UpdateChecked(t)
          /\ (tasks[t].pc = "oracle" /\ tasks'[t].verdict = "accept") => UpdateStored(t)]_vars

C8_Witness ==
    \E t \in Tasks :
        /\ tasks[t].op = "update" /\ tasks[t].fresh
        /\ tasks[t].result = ErrCount("fragment_ambiguous", 2)

\* C9: an update that returns an error leaves the dict, every file, and what
\* read returns for every key (content and version) as they were.
C9_UpdateErrorFrame ==
    [][\A t \in Tasks :
          (Returned(t, "update") /\ tasks'[t].result.kind = "err") => StoreUntouched]_vars

C9_Witness ==
    \E t \in Tasks :
        /\ tasks[t].op = "update" /\ tasks[t].fresh
        /\ tasks[t].result \in {Err("oversize"), Err("semantics")}

\* C10: a create(K, C) that succeeds makes read(K) return C with the version of
\* (K, C); what read returns for an entry whose content is in memory, as it is
\* after a create, changes only by a successful update, reassign or delete of its
\* key; after a delete that succeeds read(K) is NotFound; a delete of an existing
\* key with another version than the current one returns the version-mismatch
\* error and changes nothing.
MutatedBy(t, K) ==
    /\ Returned(t, tasks'[t].op)
    /\ tasks'[t].op \in {"update", "reassign", "delete"}
    /\ tasks'[t].keywords = K
    /\ tasks'[t].result.kind = "ok"
C10_ReadAfterWrite ==
    [][/\ \A t \in Tasks : (Returned(t, "create") /\ tasks'[t].result.kind = "ok") =>
              /\ tasks'[t].result = Ok(SnapOf(tasks[t].keywords, tasks[t].content))
              /\ ReadNext(tasks[t].keywords) = tasks'[t].result
       /\ \A K \in Keys(memories) :
              (heap[find_memory(memories, K)].loaded /\ ~\E t \in Tasks : MutatedBy(t, K))
                  => ReadNext(K) = ReadNow(K)
       /\ \A t \in Tasks : Returned(t, "delete") =>
              LET K == tasks'[t].keywords IN
              /\ tasks'[t].result.kind = "ok" => ReadNext(K) = Err("not_found")
              /\ (ReadNow(K).kind = "ok" /\ tasks'[t].version # ReadNow(K).snap.version)
                    => tasks'[t].result = Err("version_mismatch") /\ StoreUntouched]_vars

C10_Witness ==
    \E t \in Tasks :
        /\ tasks[t].op = "delete" /\ tasks[t].result = Err("version_mismatch")
        /\ ReadNow(tasks[t].keywords).kind = "ok"

\* the file of key K holds the same text, or is missing, before and after the step
FileKept(K) ==
    /\ get_file_path(K) \in DOMAIN files' <=> get_file_path(K) \in DOMAIN files
    /\ get_file_path(K) \in DOMAIN files => files'[get_file_path(K)] = files[get_file_path(K)]

\* C11: when reassign(K, K', v) returns success, K is absent (read(K) is NotFound
\* and K's file is gone), and K' is in the dict with the content c that v was
\* the version of, c in K''s file, and the version of (K', c), which is not v.
C11_ReassignMoves ==
    [][\A t \in Tasks : (Returned(t, "reassign") /\ tasks'[t].result.kind = "ok") =>
          LET K == tasks[t].keywords
              Kn == tasks[t].new_keywords
              c == tasks[t].pending
          IN  /\ generate_version(K, c) = tasks[t].version
              /\ ReadNext(K) = Err("not_found")
              /\ get_file_path(K) \notin DOMAIN files'
              /\ tasks'[t].result = Ok(SnapOf(Kn, c))
              /\ ReadNext(Kn) = Ok(SnapOf(Kn, c))
              /\ get_file_path(Kn) \in DOMAIN files' /\ files'[get_file_path(Kn)] = c
              /\ generate_version(Kn, c) # tasks[t].version]_vars

C11_Witness ==
    \E t \in Tasks :
        /\ tasks[t].op = "reassign" /\ tasks[t].result.kind = "ok"
        /\ ReadNow(tasks[t].keywords) = Err("not_found")
        /\ ReadNow(tasks[t].new_keywords) = tasks[t].result

\* C12: a reassign(K, K', v) that returns an error leaves K's dict entry, what
\* read(K) returns (content and version) and K's file as they were.
C12_ReassignErrorFrame ==
    [][\A t \in Tasks : (Returned(t, "reassign") /\ tasks'[t].result.kind = "err") =>
          LET K == tasks'[t].keywords IN
          K \in Keys(memories) =>
              /\ find_memory(memories', K) = find_memory(memories, K)
              /\ ReadNext(K) = ReadNow(K)
              /\ FileKept(K)]_vars

\* C13: at the step at which create, update or reassign returns success with
\* the snapshot (K, C, v), K's file holds exactly C and v is the version of (K, C).
C13_DurableBeforeAck ==
    [][\A t \in Tasks :
          (/\ Moved(t) /\ tasks'[t].pc = "done"
           /\ tasks'[t].op \in {"create", "update", "reassign"}
           /\ tasks'[t].result.kind = "ok") =>
          LET snap == tasks'[t].result.snap IN
          /\ get_file_path(snap.keywords) \in DOMAIN files'
          /\ files'[get_file_path(snap.keywords)] = snap.content
          /\ snap.version = generate_version(snap.keywords, snap.content)]_vars

C13_Witness ==
    \E t \in Tasks :
        /\ tasks[t].op = "create" /\ tasks[t].result.kind = "ok"
        /\ get_file_path(tasks[t].keywords) \in DOMAIN files
        /\ files[get_file_path(tasks[t].keywords)] = tasks[t].content

\* the oracle call of task t, made during op, ends in this step with the verdict
OracleEnds(t, op, verdict) ==
    /\ tasks[t].op = op /\ tasks[t].pc = "oracle"
    /\ Moved(t) /\ tasks'[t].verdict = verdict

\* C24: when the oracle call of a create or an update times out or fails in
\* transport, the operation returns a validation error (it does not raise and
\* does not call the oracle again) and leaves the dict, the contents, the
\* versions and the files as they were.
C24_OracleFailureIsError ==
    [][\A t \in Tasks : \A op \in {"create", "update"} :
          OracleEnds(t, op, "raise") =>
              /\ tasks'[t].pc = "done"
              /\ tasks'[t].result.kind = "err"
              /\ StoreUntouched ]_vars

\* C25: a create or an update that is cancelled while its oracle call is pending
\* leaves the dict, every content and version and every file as they were before
\* the call, as a rejection by the oracle does, and the cancelled update no
\* longer holds the entry's lock.
C25_CancelLeavesNoTrace ==
    [][\A t \in Tasks : \A op \in {"create", "update"} :
          OracleEnds(t, op, "cancelled") =>
              /\ tasks'[t].pc = "done"
              /\ StoreUntouched
              /\ \A o \in ObjIds : locks'[o].holder # t
              /\ op = "update" => locks[tasks[t].obj].holder = t ]_vars

\* an update was cancelled at its oracle call, and a later operation on the same
\* entry holds the entry's lock
C25_Witness ==
    \E t, u \in Tasks :
        /\ tasks[t].op = "update" /\ tasks[t].verdict = "cancelled" /\ tasks[t].pc = "done"
        /\ tasks[u].keywords = tasks[t].keywords /\ tasks[u].pc = "oracle"
        /\ \E o \in ObjIds : locks[o].holder = u

\* C26: under every interleaving, read, create, update, reassign and delete each
\* end with an Ok or an Err result and never with an exception (the exceptions
\* of the oracle call, which C24 is about, set aside).
C26_NoUncaughtFault ==
    \A t \in Tasks :
        (tasks[t].pc = "done" /\ tasks[t].verdict # "raise") => tasks[t].result.kind \in {"ok", "err"}

\* the call that task t ended with success is still what the store shows: the key
\* of an update reads as the call returned it, the key of a reassign or a delete
\* is not in the dict
Applied(t) ==
    /\ tasks[t].pc = "done" /\ tasks[t].result.kind = "ok"
    /\ \/ tasks[t].op = "update" /\ ReadNow(tasks[t].keywords) = tasks[t].result
       \/ tasks[t].op \in {"reassign", "delete"} /\ find_memory(memories, tasks[t].keywords) = 0
\* the step is the call, by t and with nothing else in flight, of the operation t
\* ended with success, with the same arguments and the same version
Retry(t) ==
    /\ Applied(t)
    /\ \A u \in Tasks \ {t} : ~InFlight(u)
    /\ Moved(t) /\ nops' = nops + 1
    /\ tasks'[t].op = tasks[t].op
    /\ tasks'[t].keywords = tasks[t].keywords
    /\ tasks'[t].new_keywords = tasks[t].new_keywords
    /\ tasks'[t].old = tasks[t].old /\ tasks'[t].new = tasks[t].new
    /\ tasks'[t].version = tasks[t].version
\* the retry returns an error and changes nothing
RetryRefused(t) ==
    /\ tasks'[t].pc = "done"
    /\ tasks'[t].result = Err(IF tasks[t].op = "update" THEN "version_mismatch" ELSE "not_found")
    /\ StoreUntouched

\* C27 as claimed: calling again, with the same arguments and the same version,
\* an update, reassign or delete that has succeeded returns an error and
\* changes neither the dict, nor a content or version, nor a file.
C27_RetryIsRefused ==
    [][\A t \in Tasks : Retry(t) => RetryRefused(t)]_vars

\* C27 amended: the retry of a reassign or a delete returns the not-found error,
\* the retry of an update whose replacement changed the content returns the
\* version-mismatch error, and both change nothing; the retry of an update whose
\* new fragment equals the old one carries the version that is still current:
\* it passes the version check again and goes on to the oracle, having changed
\* nothing.
C27_RetryOfChangeIsRefused ==
    [][\A t \in Tasks : Retry(t) =>
          IF tasks[t].op = "update" /\ tasks[t].old = tasks[t].new
          THEN tasks'[t].pc = "oracle" /\ tasks'[t].pending = tasks[t].result.snap.content
               /\ StoreUntouched
          ELSE RetryRefused(t)]_vars

\* task 1 made both calls of the run, updates with the same arguments; the second
\* returned the version-mismatch error, and the content is that of the carried
\* version with the replacement made once
C27_Witness ==
    /\ nops = 2 /\ tasks[2].pc = "idle"
    /\ tasks[1].op = "update" /\ tasks[1].result = Err("version_mismatch")
    /\ \E c \in CreateTexts :
          /\ tasks[1].version = generate_version(tasks[1].keywords, c)
          /\ ReplaceFirst(c, tasks[1].old, tasks[1].new) # c
          /\ ReadNow(tasks[1].keywords) = Ok(SnapOf(tasks[1].keywords, ReplaceFirst(c, tasks[1].old, tasks[1].new)))

\* task t returns from op with success in this step
Succeeds(t, op) == Returned(t, op) /\ tasks'[t].result.kind = "ok"
\* what the store shows of key K: list has it and read returns it
Present(K) == K \in Keys(memories) /\ ReadNow(K).kind = "ok"
PresentNext(K) == K \in Keys(memories') /\ ReadNext(K).kind = "ok"

\* C30: as read and list show it, a key becomes present only in the step of a
\* successful create of it or reassign to it, its version changes only in the
\* step of a successful update of it, and it becomes absent only in the step of
\* a successful delete of it or reassign away from it.
C30_KeyLifecycle ==
    [][\A K \in Keys(memories) \cup Keys(memories') :
          /\ (~Present(K) /\ PresentNext(K)) =>
                \E t \in Tasks : \/ Succeeds(t, "create") /\ tasks'[t].keywords = K
                                 \/ Succeeds(t, "reassign") /\ tasks'[t].new_keywords = K
          /\ (Present(K) /\ PresentNext(K) /\ ReadNext(K).snap.version # ReadNow(K).snap.version) =>
                \E t \in Tasks : Succeeds(t, "update") /\ tasks'[t].keywords = K
          /\ (Present(K) /\ ~PresentNext(K)) =>
                \E t \in Tasks : \/ Succeeds(t, "delete") /\ tasks'[t].keywords = K
                                 \/ Succeeds(t, "reassign") /\ tasks'[t].keywords = K
      ]_vars

\* the return of the oracle call that task t awaits
OracleReturns(t) ==
    \E v \in Verdicts : CreateOracle(t, v) \/ UpdateOracle(t, v) \/ ReassignOracle(t, v)

\* C31: at every suspension point _registry_lock is free: no coroutine holds it
\* while it awaits the oracle or a Memory's lock.  A call that has to wait waits for
\* the lock of the Memory of its own keywords, held by an operation on the same
\* keywords; and every operation that awaits the oracle can go on as soon as the
\* oracle returns, whatever the other operations await.
C31_RegistryLockNeverAwaited ==
    [][/\ LockFree(locks, registry_lock) /\ LockFree(locks', registry_lock)
       /\ \A u \in Tasks : (Moved(u) /\ tasks'[u].pc = "lock") =>
             /\ heap[tasks'[u].obj].keywords = tasks'[u].keywords
             /\ \E w \in Tasks \ {u} : /\ locks[tasks'[u].obj].holder = w
                                       /\ tasks[w].pc = "oracle"
                                       /\ tasks[w].keywords = tasks'[u].keywords
       /\ \A u \in Tasks : tasks[u].pc = "oracle" => ENABLED OracleReturns(u)
      ]_vars

\* task 1 awaits the oracle for one key while task 2, called after it, has created
\* another key and returned
C31_Witness ==
    /\ tasks[1].pc = "oracle"
    /\ tasks[2].pc = "done" /\ tasks[2].op = "create" /\ tasks[2].result.kind = "ok"
    /\ tasks[2].keywords # tasks[1].keywords /\ tasks[2].keywords # tasks[1].new_keywords
    /\ LockFree(locks, registry_lock)

\* the locks coroutine t holds
HeldBy(lk, t) == {o \in LockIds : lk[o].holder = t}

\* C32: a coroutine takes a Memory's lock only while it holds no lock, so that
\* _registry_lock is only ever taken after a Memory's lock and never before one;
\* and every operation that has been called and waits, for the oracle or for a
\* lock, returns in the end.
C32_NoDeadlock ==
    /\ [][\A t \in Tasks : \A o \in ObjIds :
             (locks[o].holder # t /\ locks'[o].holder = t) => HeldBy(locks, t) = {}]_vars
    /\ \A t \in Tasks : InFlight(t) ~> tasks[t].pc = "done"

\* task 2, which waited for the lock that task 1 held during its oracle call, has
\* taken it and returned
C32_Witness ==
    /\ tasks[1].pc = "done" /\ tasks[2].pc = "done"
    /\ tasks[1].op \in {"update", "reassign"} /\ tasks[2].op \in {"update", "reassign"}
    /\ tasks[1].keywords = tasks[2].keywords
    /\ tasks[1].verdict # "" /\ tasks[2].verdict # ""

\* the tokens a file name is made of, and the names that are the tokens of K in
\* some order, each at least once, joined by "-"
NameTokens == { <<>>, <<"a">>, <<"b">>, <<"A">>, <<"1">> }
SplitsInto(name, K) ==
    \E q \in UNION {[1..n -> NameTokens] : n \in 1..3} : Join(q, <<"-">>) = name /\ Range(q) = K

\* C33: the registry constructed on a directory holds exactly the keyword sets
\* that are well formed and that the name of some file splits into on "-", each
\* once and, until it is read, as an unloaded Memory; names that split into
\* anything else are left out; and every well-formed keyword set whose file (its
\* sorted tokens joined by "-") is in the directory is registered and reads as
\* that file.
C33_LoadRegistersValidNames ==
    /\ \A K \in SUBSET NameTokens :
          K \in Keys(memories) <=> (WellFormed(K) /\ \E name \in DOMAIN files : SplitsInto(name, K))
    /\ \A i, j \in 1..Len(memories) : i # j => memories[i].key # memories[j].key
    /\ \A i \in 1..Len(memories) :
          /\ heap[memories[i].obj].alloc /\ heap[memories[i].obj].keywords = memories[i].key
          /\ nops = 0 => ~heap[memories[i].obj].loaded
    /\ \A K \in SUBSET NameTokens :
          (WellFormed(K) /\ get_file_path(K) \in DOMAIN files) =>
              ReadNow(K) = Ok(SnapOf(K, files[get_file_path(K)]))

\* a registry constructed on a.md and a--b.md holds the key of a.md alone, and the
\* key has been read
C33_Witness ==
    /\ DOMAIN files = { <<"a">>, <<"a", "-", "-", "b">> }
    /\ Keys(memories) = { {<<"a">>} }
    /\ \E t \in Tasks : tasks[t].op = "read" /\ tasks[t].result.kind = "ok"

(***************************************************************************)
(* Properties of list and score_match                                      *)
(***************************************************************************)
Listed(t) == tasks[t].op \in {"list", "list_all"} /\ tasks[t].pc = "done"
PlaceOf(K) == CHOOSE i \in 1..Len(memories) : memories[i].key = K

\* C14: list() without a query returns every key of the dict in insertion order;
\* list(q) returns, each once, exactly the keys whose score against q is above
\* 0, by falling score, keys of equal score in their insertion order; with the
\* entries {a,b}, {a,x}, {y} the query [a] returns {a,b} then {a,x}.
C14_ListOrder ==
    \A t \in Tasks : Listed(t) =>
        LET q == tasks[t].query
            L == tasks[t].listing
        IN  /\ tasks[t].op = "list_all" => L = [i \in 1..Len(memories) |-> memories[i].key]
            /\ tasks[t].op = "list" =>
                  /\ Range(L) = {K \in Keys(memories) : score_match(q, K) > 0}
                  /\ \A i, j \in 1..Len(L) : i < j =>
                        \/ score_match(q, L[i]) > score_match(q, L[j])
                        \/ /\ score_match(q, L[i]) = score_match(q, L[j])
                           /\ PlaceOf(L[i]) < PlaceOf(L[j])
            /\ (/\ tasks[t].op = "list" /\ q = << <<"a">> >>
                /\ [i \in 1..Len(memories) |-> memories[i].key]
                      = << {<<"a">>, <<"b">>}, {<<"a">>, <<"x">>}, {<<"y">>} >>)
                  => L = << {<<"a">>, <<"b">>}, {<<"a">>, <<"x">>} >>

C14_Witness ==
    \E t \in Tasks :
        /\ Listed(t) /\ tasks[t].query = << <<"a">>, <<"y">> >>
        /\ [i \in 1..Len(memories) |-> memories[i].key]
              = << {<<"y">>}, {<<"a">>, <<"b">>}, {<<"a">>, <<"x">>} >>
        /\ tasks[t].listing = << {<<"y">>}, {<<"a">>, <<"b">>}, {<<"a">>, <<"x">>} >>

\* C15: the score list gives a key counts each query keyword at most once: 1
\* if some keyword of the key is equal to it or similar enough, 0 otherwise;
\* so no score is above the number of query keywords.
C15_OneMatchPerQueryToken ==
    \A t \in Tasks : (Listed(t) /\ tasks[t].op = "list") =>
        LET q == tasks[t].query IN
        \A i \in 1..Len(tasks[t].scored) :
            LET e == tasks[t].scored[i] IN
            /\ e.score <= Len(q)
            /\ e.score = Cardinality({j \in 1..Len(q) :
                             \E f \in e.key : q[j] = f \/ fuzzy_match(q[j], f) >= FUZZY_MATCH_THRESHOLD})

(***************************************************************************)
(* Properties of the singleton lock                                        *)
(***************************************************************************)
\* the live backends that hold the lock they acquired
Holders == {b \in Backends : backends[b].alive /\ backends[b].fd # 0}

\* C2: under every interleaving of Acquire, Release (unlock, then unlink) and
\* the clients' Discover and cleanup (unlink), at most one live backend holds
\* the singleton lock.
C2_AtMostOneHolder == Cardinality(Holders) <= 1

\* C3: of two Acquires exactly one succeeds: an Acquire made while a live backend
\* holds the lock on the lock file fails, one made while no backend runs
\* succeeds; and a Discover begun after the loser's Acquire, returning while the
\* winner runs with its {pid, port} written, reports the winner's port found.
C3_LoserDiscovers ==
    [][/\ \A b \in Backends : (backends[b].pc = "init" /\ backends'[b].pc # "init") =>
              /\ (path # 0 /\ inodes[IF path = 0 THEN 1 ELSE path].locked # 0) => backends'[b].pc = "exited"
              /\ (\A p \in Backends : ~backends[p].alive) => backends'[b].pc = "acquired"
       /\ \A c \in Clients : (clients'[c] # clients[c] /\ clients'[c].pc = "done") =>
              \A l \in clients[c].since :
                  LET w == backends[l].lost IN
                  (backends[w].pc = "running" /\ backends[w].fd # 0)
                      => clients'[c].found /\ clients'[c].backend_url = Port(w)]_vars

\* a step of client c's _discover_backend
Moves(c) == clients'[c] # clients[c]
\* the step leaves every process and the lock file as they are
WorldUntouched == UNCHANGED <<inodes, path, backends>>
\* what the probe of a live pid leads to, but for the reaping
ProbeOutcome(c) ==
    /\ clients[c].pc \in {"idle", "done", "read", "alive", "probe"} => WorldUntouched
    /\ clients'[c].pc = "alive" =>
          /\ clients'[c].pid = inodes[path].text[1]
          /\ clients'[c].port = inodes[path].text[2]
    /\ clients'[c].pc = "probe" => kill_succeeds(clients[c].pid) /\ clients'[c].port = clients[c].port
    /\ clients[c].pc = "probe" =>
          \/ /\ clients'[c].pc = "done" /\ clients'[c].found
             /\ clients'[c].backend_url = clients[c].port
          \/ clients'[c].pc = "kill"
    /\ clients[c].pc = "kill" => clients'[c].pc = "unlink" /\ ~backends'[clients[c].pid].alive
    /\ clients[c].pc = "unlink" => clients'[c].pc = "done" /\ ~clients'[c].found /\ path' = 0

\* C19, as the code has it: Discover on a lock file that names a live pid reports
\* found with the address of the recorded port and leaves the process and the
\* lock file untouched when the probe succeeds; when the probe fails it kills the
\* process, deletes the lock file and reports not-found, and it reaps the process
\* when the process is a child of the caller.
C19_ProbeOutcome ==
    [][\A c \in Clients : Moves(c) =>
          /\ ProbeOutcome(c)
          /\ cleanup_kill(c, TRUE) => ~backends'[clients[c].pid].zombie ]_vars

\* C19: the same, and the killed process is reaped whoever the caller is.
C19_AlwaysReaps ==
    [][\A c \in Clients : Moves(c) =>
          /\ ProbeOutcome(c)
          /\ clients[c].pc = "kill" => ~backends'[clients[c].pid].zombie ]_vars

\* one client found the running backend at its port; another found the process of
\* an earlier backend alive, failed to reach it, killed it and deleted the lock file
C19_Witness ==
    \E c, d \in Clients, b, k \in Backends :
        /\ clients[c].pc = "done" /\ clients[c].found /\ clients[c].backend_url = Port(b)
        /\ backends[b].pc = "running"
        /\ clients[d].pc = "done" /\ ~clients[d].found /\ clients[d].pid = k
        /\ backends[k].pc = "killed"

\* no backend process runs
NoneAlive == \A b \in Backends : ~backends[b].alive
\* a backend was killed and did not run BackendLock.release
KilledOwner == \E b \in Backends : backends[b].pc = "killed"

\* C20: once the backend that owned the lock was killed without Release and no
\* backend runs, a Discover that returns reports not-found and leaves no lock
\* file behind, and an Acquire by a new backend succeeds.
C20_StaleLockRecovered ==
    [][ (NoneAlive /\ KilledOwner) =>
          /\ \A c \in Clients : (Moves(c) /\ clients'[c].pc = "done") =>
                ~clients'[c].found /\ path' = 0
          /\ \A b \in Backends : (backends[b].pc = "init" /\ backends'[b].pc # "init") =>
                backends'[b].pc = "acquired" /\ backends'[b].alive ]_vars

(***************************************************************************)
(* Properties of the idle monitor                                          *)
(***************************************************************************)
\* the step in which the monitor sets the shutdown event
Signals == ~server.shutdown_event /\ server'.shutdown_event
\* an operation of the registry is running for request r
Running(r) == server.handlers[r] \in {"recall", "memorize"}

\* C16: the monitor signals shutdown only where the in-flight count is 0 and the
\* time since the latest request arrival or heartbeat has reached the idle
\* threshold: never while an operation runs, never less than the threshold after
\* a heartbeat; and a heartbeat resets the idle timer and keeps the in-flight count.
C16_SignalsOnlyWhenIdle ==
    [][ /\ Signals =>
            /\ server.active_tasks = 0
            /\ server.quiet >= shutdown_idle
            /\ server.hb_age = -1 \/ server.hb_age >= shutdown_idle
            /\ \A r \in Requests : ~Running(r)
        /\ handle_heartbeat =>
            /\ server'.idle_time = 0
            /\ server'.active_tasks = server.active_tasks ]_vars

\* the monitor has signalled after requests were served and a heartbeat was heard
C16_Witness ==
    /\ server.shutdown_event
    /\ server.hb_age >= shutdown_idle
    /\ \E r \in Requests : server.handlers[r] = "done"

\* a recall or memorize request, or a heartbeat, arrives
Arrival ==
    \/ \E r \in Requests : handle_recall(r) \/ handle_memorize(r)
    \/ handle_heartbeat
\* run has returned and the lock file is gone
Removed == server.shutdown_event /\ backends[1].pc = "exited" /\ path = 0

\* C17: if from some point on the in-flight count is 0 and no request and no
\* heartbeat arrives, the monitor eventually signals shutdown, run returns and
\* the lock file is removed; and the monitor signals at the first poll that finds
\* the count 0 and the idle time at the threshold.
C17_IdleShutsDown ==
    /\ (<>[](server.active_tasks = 0) /\ <>[][~Arrival]_vars) => <>Removed
    /\ [][ auto_shutdown_monitor /\ server.active_tasks = 0 /\ server.quiet >= shutdown_idle
             => Signals ]_vars

\* the backend has shut down for idleness after it served a request
C17_Witness == Removed /\ inodes[1].locked = 0 /\ \E r \in Requests : server.handlers[r] = "done"

\* the operation of a recall or memorize request completes
Completion == \E r \in Requests : recall_done(r) \/ memorize_done(r)

\* C18: last_activity is refreshed when the operation of a recall or memorize
\* request completes, as it is when the request arrives, so the monitor never
\* signals shutdown less than the idle threshold after an operation finished.
C18_CompletionRefreshes ==
    [][ /\ Completion => server'.idle_time = 0
        /\ Signals => server.done_age = -1 \/ server.done_age >= shutdown_idle ]_vars

(***************************************************************************)
(* Properties of the client's start and recovery                           *)
(***************************************************************************)
\* _start_backend of client c is between its Popen and its end
Starting(c) == clients[c].caller \in {"sleep", "poll"}
\* client c's poll of _discover_backend returns in this step
PollReturns(c) == clients[c].caller = "poll" /\ clients'[c].pc = "done" /\ Moves(c)

\* C21: _start_backend terminates: after the Popen it begins at most 10 polls of
\* _discover_backend; it returns at the first poll that finds a healthy backend,
\* with backend_url set to the port that answered; a poll that finds none is
\* followed by the next poll, and the tenth by the RuntimeError.
C21_StartTerminates ==
    /\ [](\A c \in Starters : clients[c].polls <= MaxPolls)
    /\ [][\A c \in Starters :
            /\ PollReturns(c) =>
                  IF clients'[c].found
                  THEN /\ clients'[c].caller = "returned"
                       /\ clients'[c].backend_url = clients[c].port
                       /\ \E b \in Backends : backends[b].pc = "running" /\ Port(b) = clients'[c].backend_url
                  ELSE IF clients[c].polls = MaxPolls
                  THEN clients'[c].caller = "raised"
                  ELSE clients'[c].caller = "sleep" /\ clients'[c].backend_url = clients[c].backend_url
            /\ clients'[c].polls # clients[c].polls =>
                  \/ clients[c].caller = "sleep" /\ clients'[c].polls = clients[c].polls + 1
                  \/ clients[c].caller = "spawn" /\ clients'[c].polls = 0 ]_vars
    /\ \A c \in Starters : Starting(c) ~> clients[c].caller \in {"returned", "raised"}

\* _start_backend gave up after its tenth poll
C21_Witness == \E c \in Starters : clients[c].caller = "raised" /\ clients[c].polls = MaxPolls

(***************************************************************************)
(* Properties of the ends of run                                           *)
(***************************************************************************)
\* backend b holds the flock of some inode
HoldsLock(b) == \E i \in 1..Len(inodes) : inodes[i].locked = b
\* backend b, which had acquired the lock, takes a step
RunMoves(b) == backends[b].pc \in {"acquired", "running", "released"} /\ backends'[b] # backends[b]

Orphaned(c) ==
    /\ clients[c].caller = "returned"
    /\ \E k \in Backends : backends[k].pc = "killed" /\ clients[c].backend_url = Port(k)
\* the lock file names a running backend, and client c talks to it
Recovered(c) ==
    /\ clients[c].caller = "returned"
    /\ \E b \in Backends :
          /\ backends[b].pc = "running"
          /\ clients[c].backend_url = Port(b)
          /\ path # 0 /\ inodes[IF path = 0 THEN 1 ELSE path].text = <<b, Port(b)>>
\* no process is left to spawn
Exhausted == \A b \in Backends : backends[b].pc # "unborn"

\* a second backend was killed
KilledAgain == Cardinality({k \in Backends : backends[k].pc = "killed"}) > 1

\* C23: once the backend a started client talks to is killed, the client's
\* heartbeat fails and calls _ensure_backend, and eventually the lock file names
\* a new running backend and the client talks to it (unless the new backend is
\* killed too).
C23_Recovers == \A c \in Starters : Orphaned(c) ~> (Recovered(c) \/ KilledAgain \/ Exhausted)


Payload == IF path = 0 THEN <<>> ELSE inodes[path].text
PayloadNext == IF path' = 0 THEN <<>> ELSE inodes'[path'].text
\* backend b is alive with its site started
Listening(b) ==
    /\ backends[b].alive /\ backends[b].pc \in {"running", "released"}
    /\ b = 1 => server.site = Port(1)

\* C34: a step that writes a {pid, port} to the lock file is taken by the backend
\* of that pid while it holds the lock it acquired, and for backend 1 the port is
\* the one its site was bound to before the step; the monitor of backend 1 is
\* started in the step that has written its {pid, port}, not before; and a
\* payload of two lines that names a live backend names the port of that
\* backend's started site.
C34_PayloadAfterBind ==
    [][/\ (Len(PayloadNext) = 2 /\ PayloadNext # Payload) =>
             LET b == PayloadNext[1] IN
             /\ backends[b].pc = "acquired" /\ backends[b].alive
             /\ backends[b].fd # 0 /\ inodes[backends[b].fd].locked = b
             /\ b = 1 => (server.site # 0 /\ PayloadNext[2] = server.site)
       /\ server.monitor = "none" => ~server.shutdown_event
       /\ (server.monitor = "none" /\ server'.monitor # "none") =>
             /\ PayloadNext = <<1, server.site>>
             /\ server'.monitor = "sleeping" /\ backends'[1].pc = "running"
       /\ (Len(Payload) = 2 /\ backends[Payload[1]].alive) =>
             Listening(Payload[1]) /\ Payload[2] = Port(Payload[1])
      ]_vars

\* backend 1 has bound its site, written its {pid, port} and started its monitor,
\* and the lock file holds that payload
C34_Witness ==
    /\ backends[1].pc = "running" /\ server.site = Port(1) /\ server.monitor = "sleeping"
    /\ Payload = <<1, Port(1)>>



\* C36: whenever no store operation is in flight, the memory files of the
\* directory are exactly the files of the keys of the map: every key's file
\* (its sorted tokens joined by '-') exists and no other file does.
C36_FilesMatchKeys ==
    (\A t \in Tasks : ~InFlight(t)) =>
        DOMAIN files = {get_file_path(K) : K \in Keys(memories)}


\* C37: when a create or a reassign returns the conflict error because its new
\* key K' is already in the map, the step leaves the entry under K' as it was:
\* the same object, the same content and version returned by read, and the
\* same file.
C37_ConflictKeepsWinner ==
    [][\A t \in Tasks :
          (/\ Moved(t) /\ tasks[t].pc = "oracle" /\ tasks[t].op \in {"create", "reassign"}
           /\ tasks'[t].pc = "done" /\ tasks'[t].result.kind = "err"
           /\ tasks'[t].result.err = "conflict") =>
              LET K == heap[tasks[t].newobj].keywords IN
              /\ K \in Keys(memories)
              /\ find_memory(memories', K) = find_memory(memories, K)
              /\ ReadNext(K) = ReadNow(K)
              /\ FileKept(K)]_vars


\* C38: active_tasks is never negative and is the number of recall handlers
\* and memorize tasks that are running; the step that starts one adds 1 and the
\* step that ends one, by a response, an error or a cancellation, subtracts 1.
C38_CounterCountsRunning ==
    /\ [](/\ server.active_tasks >= 0
          /\ server.active_tasks = Cardinality({r \in Requests : Running(r)}))
    /\ [][\A r \in Requests :
             /\ (~Running(r) /\ Running(r)') => server'.active_tasks = server.active_tasks + 1
             /\ (Running(r) /\ ~Running(r)') =>
                    /\ server'.handlers[r] = "done"
                    /\ server'.active_tasks = server.active_tasks - 1]_vars
\* a recall was cancelled, which ends it with no response, while a memorize
\* task runs: the counter is 1
C38_Witness ==
    \E r, p \in Requests :
        /\ server.handlers[r] = "done" /\ server.responses[r] = "none" /\ server.outcomes[r] = "none"
        /\ server.handlers[p] = "memorize" /\ server.active_tasks = 1


\* C39: from the accepted response of a memorize request until its background
\* task has finished, the monitor does not signal shutdown.
C39_NoSignalWhileAccepted ==
    [][Signals =>
          \A r \in Requests :
              server.responses[r] = "accepted" => server.handlers[r] = "done"]_vars


\* C40: the heartbeat loop of a started client keeps running: a client whose
\* start has returned (it has a backend_url and its heartbeat task was created)
\* is never left by an exception of _ensure_backend; after a failed heartbeat
\* it is discovering, spawning, polling or back in the loop.
C40_HeartbeatKeepsRunning ==
    \A c \in Starters : clients[c].backend_url # 0 => clients[c].caller # "raised"

\* C35: a backend whose acquire fails, the lock being held by another process,
\* exits in that very step, without release: the lock file stays in the directory
\* with the text it had and the lock on it stays with its holder, and the backend
\* never writes its {pid, port}, starts no site and ends holding nothing.
C35_LoserLeavesLockFile ==
    [][\A b \in Backends :
          (backends[b].pc = "init" /\ backends'[b].pc = "exited") =>
              /\ path # 0 /\ inodes[path].locked \notin {0, b}
              /\ path' = path /\ PayloadNext = Payload
              /\ inodes'[path].locked = inodes[path].locked
              /\ backends'[b].fd = 0 /\ ~backends'[b].alive
              /\ b = 1 => server' = server
      ]_vars

\* a step of the background task of request r
TaskMoves(r) == server.handlers[r] \in {"scheduled", "memorize"} /\ server'.handlers[r] # server.handlers[r]

\* C28: a POST /memorize with a content field is answered with the status
\* accepted while its background task is scheduled and has not run; the response
\* a handler gave is never changed; and the steps of the task, however the task
\* ends, belong to a request already answered with accepted and answer nothing.
C28_AcceptedBeforeTask ==
    [][\A r \in Requests :
          /\ memorize_accepted(r, TRUE) =>
                /\ server.responses[r] = "none" /\ server'.responses[r] = "accepted"
                /\ server'.handlers[r] = "scheduled" /\ server'.outcomes[r] = "none"
                /\ server'.active_tasks = server.active_tasks
          /\ server.responses[r] # "none" => server'.responses[r] = server.responses[r]
          /\ TaskMoves(r) => server.responses[r] = "accepted" /\ server'.responses = server.responses
       ]_vars

\* one request was answered with accepted and its task ended with an exception,
\* another was answered with accepted and its task ended with the agent's done
C28_Witness ==
    \E r, q \in Requests :
        /\ server.responses[r] = "accepted" /\ server.outcomes[r] = "raise"
        /\ server.responses[q] = "accepted" /\ server.outcomes[q] = "done"

====
